---- MODULE Spec2Model ----
(***************************************************************************)
(* Model of the feedback-analysis core of AgenticAI-Capstone:              *)
(*   config_manager.py      ConfigurationManager (load/save/update/        *)
(*                          export/import/validate)                        *)
(*   processing_logger.py   ProcessingLogger (audit log)                   *)
(*   multi_agent_system.py  ClassificationTool, PriorityTool,              *)
(*                          TechnicalDetailsTool, FeedbackAnalysisSystem   *)
(*                                                                         *)
(* Number representation.  Python floats that hold thresholds and weights  *)
(* in [0,1] are kept as integers in hundredths (0.7 is 70); quality        *)
(* thresholds and scores are whole points (70.0 is 70).  A confidence is   *)
(* the exact fraction <<num, den>> the code computes with a division:      *)
(* score/max(1,total)*100 is <<100*score, max(1,total)>>.  The keyword     *)
(* totals are at most 50 and thresholds have two decimals, so comparing    *)
(* the exact fractions agrees with comparing the rounded doubles.          *)
(***************************************************************************)
EXTENDS Integers, Sequences, FiniteSets, TLC

VARIABLES
    config,         \* ConfigurationManager.config (the process-wide singleton)
    config_file,    \* ConfigurationManager.config_file
    files,          \* the file system: file name -> JSON document / MISSING / MALFORMED
    last_result,    \* what the last ConfigurationManager / tool call returned
    clock,          \* datetime.now()
    logger,         \* the ProcessingLogger objects made so far (their log_entries)
                    \* and which of them the global _processing_logger names
    log_file,       \* processing_log.csv
    system,         \* the FeedbackAnalysisSystem: processing_logger, session_id
    outputs,        \* generated_tickets.csv and metrics.csv
    text_in,        \* argument of the tool call under study
    all_data,       \* process_feedback_hybrid: records read from the CSV files
    idx,            \* process_feedback_hybrid: loop index i
    results,        \* process_feedback_hybrid: results
    result_cfg,     \* ghost: classification thresholds in force for results[k]
    pc,             \* position inside process_feedback_hybrid / the per-item pipeline
    frame,          \* local variables of _process_single_feedback_with_agents
    upd,            \* a running update_classification_thresholds: kwargs not yet applied
    rd              \* a running ClassificationTool._run in another thread

vars == <<config, config_file, files, last_result, clock, logger, log_file,
          system, outputs, text_in, all_data, idx, results, result_cfg, pc,
          frame, upd, rd>>

NONE == "<None>"

--------------------------------------------------------------------------
(* Python string primitives *)

Lower1(c) ==
    CASE c = "A" -> "a" [] c = "B" -> "b" [] c = "C" -> "c" [] c = "D" -> "d"
      [] c = "E" -> "e" [] c = "F" -> "f" [] c = "G" -> "g" [] c = "H" -> "h"
      [] c = "I" -> "i" [] c = "J" -> "j" [] c = "K" -> "k" [] c = "L" -> "l"
      [] c = "M" -> "m" [] c = "N" -> "n" [] c = "O" -> "o" [] c = "P" -> "p"
      [] c = "Q" -> "q" [] c = "R" -> "r" [] c = "S" -> "s" [] c = "T" -> "t"
      [] c = "U" -> "u" [] c = "V" -> "v" [] c = "W" -> "w" [] c = "X" -> "x"
      [] c = "Y" -> "y" [] c = "Z" -> "z" [] OTHER -> c

RECURSIVE lower(_)
lower(s) ==
    IF Len(s) = 0 THEN ""
    ELSE IF Len(s) = 1 THEN Lower1(s)
    ELSE LET half == Len(s) \div 2
         IN  lower(SubSeq(s, 1, half)) \o lower(SubSeq(s, half + 1, Len(s)))

\* Python's  k in s  for strings
Contains(k, s) ==
    \E i \in 1..(Len(s) - Len(k) + 1) : SubSeq(s, i, i + Len(k) - 1) = k

\* any(keyword in s for keyword in kws)
AnyIn(kws, s) == \E i \in DOMAIN kws : Contains(kws[i], s)

\* sum(1 for keyword in kws if keyword in s)
CountIn(kws, s) == Cardinality({i \in DOMAIN kws : Contains(kws[i], s)})

\* s[:n]
Prefix(s, n) == IF Len(s) <= n THEN s ELSE SubSeq(s, 1, n)

--------------------------------------------------------------------------
(* config_manager.py: the dataclasses and their defaults *)

ClassificationFields ==
    {"bug_threshold", "feature_threshold", "praise_threshold",
     "complaint_threshold", "spam_threshold", "minimum_confidence"}

DefaultClassificationThresholds ==
    [bug_threshold |-> 70, feature_threshold |-> 60, praise_threshold |-> 60,
     complaint_threshold |-> 60, spam_threshold |-> 80, minimum_confidence |-> 50]

WeightFields ==
    {"bug_severity_weight", "user_impact_weight", "technical_complexity_weight",
     "business_priority_weight"}
PriorityFields == WeightFields \cup {"bug_priority_mapping", "feature_priority_mapping"}

\* the two mapping dicts are opaque values; NONE is the dataclass default None
BugMappingDefault == "{Critical:Critical,High:High,Medium:Medium,Low:Low}"
FeatureMappingDefault == "{High Impact:High,Medium Impact:Medium,Low Impact:Low}"

DefaultPriorityWeightsRaw ==
    [bug_severity_weight |-> 40, user_impact_weight |-> 30,
     technical_complexity_weight |-> 20, business_priority_weight |-> 10,
     bug_priority_mapping |-> NONE, feature_priority_mapping |-> NONE]

\* PriorityWeights.__post_init__
PriorityWeightsPostInit(pw) ==
    [pw EXCEPT
        !.bug_priority_mapping =
            IF @ = NONE THEN BugMappingDefault ELSE @,
        !.feature_priority_mapping =
            IF @ = NONE THEN FeatureMappingDefault ELSE @]

QualityFields ==
    {"minimum_quality_score", "auto_approve_threshold", "manual_review_threshold",
     "reject_threshold"}
DefaultQualityThresholds ==
    [minimum_quality_score |-> 70, auto_approve_threshold |-> 90,
     manual_review_threshold |-> 60, reject_threshold |-> 40]

TimeoutFields ==
    {"classification_timeout", "bug_analysis_timeout", "feature_extraction_timeout",
     "quality_review_timeout"}
AgentFields ==
    {"enable_bug_analysis", "enable_feature_extraction", "enable_quality_review",
     "enable_technical_extraction"} \cup TimeoutFields
DefaultAgentSettings ==
    [enable_bug_analysis |-> TRUE, enable_feature_extraction |-> TRUE,
     enable_quality_review |-> TRUE, enable_technical_extraction |-> TRUE,
     classification_timeout |-> 30, bug_analysis_timeout |-> 45,
     feature_extraction_timeout |-> 30, quality_review_timeout |-> 20]

RuleIntFields == {"batch_size", "max_retries"}
RuleFields ==
    {"skip_low_confidence_items", "auto_categorize_spam",
     "require_manual_review_for_critical"} \cup RuleIntFields
DefaultProcessingRules ==
    [skip_low_confidence_items |-> FALSE, auto_categorize_spam |-> TRUE,
     require_manual_review_for_critical |-> TRUE, batch_size |-> 10, max_retries |-> 3]

SectionNames ==
    {"classification_thresholds", "priority_weights", "quality_thresholds",
     "agent_settings", "processing_rules"}

\* last_updated is a clock reading; 0 stands for the empty string ''
NoTimestamp == 0

\* SystemConfiguration(...) with its __post_init__; now is datetime.now()
SystemConfiguration(ct, pw, qt, ags, pr, version, last_updated, created_by, now) ==
    [classification_thresholds |-> ct, priority_weights |-> pw,
     quality_thresholds |-> qt, agent_settings |-> ags, processing_rules |-> pr,
     version |-> version,
     last_updated |-> IF last_updated = NoTimestamp THEN now ELSE last_updated,
     created_by |-> created_by]

create_default_configuration(now) ==
    SystemConfiguration(DefaultClassificationThresholds,
                        PriorityWeightsPostInit(DefaultPriorityWeightsRaw),
                        DefaultQualityThresholds, DefaultAgentSettings,
                        DefaultProcessingRules, "1.0.0", NoTimestamp,
                        "system_default", now)

\* dataclasses.asdict(self.config) followed by json.dump: the document written
asdict(cfg) ==
    [classification_thresholds |->
        [f \in ClassificationFields |-> cfg.classification_thresholds[f]],
     priority_weights |-> [f \in PriorityFields |-> cfg.priority_weights[f]],
     quality_thresholds |-> [f \in QualityFields |-> cfg.quality_thresholds[f]],
     agent_settings |-> [f \in AgentFields |-> cfg.agent_settings[f]],
     processing_rules |-> [f \in RuleFields |-> cfg.processing_rules[f]],
     version |-> cfg.version,
     last_updated |-> cfg.last_updated,
     created_by |-> cfg.created_by]

\* dict.get(key, default)
Get(d, k, dflt) == IF k \in DOMAIN d THEN d[k] ELSE dflt

\* Dataclass(**d): an unexpected keyword raises TypeError, a missing one takes
\* the field's default
KwargsAccepted(d, fields) == DOMAIN d \subseteq fields
FromDict(d, fields, defaults) == [f \in fields |-> Get(d, f, defaults[f])]

\* the body of the try block of load_configuration applied to a parsed document
LoadRaises(doc) ==
    \/ ~KwargsAccepted(Get(doc, "classification_thresholds", <<>>), ClassificationFields)
    \/ ~KwargsAccepted(Get(doc, "priority_weights", <<>>), PriorityFields)
    \/ ~KwargsAccepted(Get(doc, "quality_thresholds", <<>>), QualityFields)
    \/ ~KwargsAccepted(Get(doc, "agent_settings", <<>>), AgentFields)
    \/ ~KwargsAccepted(Get(doc, "processing_rules", <<>>), RuleFields)

LoadedDropsCreator(doc, now) ==
    SystemConfiguration(
        FromDict(Get(doc, "classification_thresholds", <<>>), ClassificationFields,
                 DefaultClassificationThresholds),
        PriorityWeightsPostInit(
            FromDict(Get(doc, "priority_weights", <<>>), PriorityFields,
                     DefaultPriorityWeightsRaw)),
        FromDict(Get(doc, "quality_thresholds", <<>>), QualityFields,
                 DefaultQualityThresholds),
        FromDict(Get(doc, "agent_settings", <<>>), AgentFields, DefaultAgentSettings),
        FromDict(Get(doc, "processing_rules", <<>>), RuleFields, DefaultProcessingRules),
        Get(doc, "version", "1.0.0"),
        Get(doc, "last_updated", NoTimestamp),
        "system", now)

Loaded(doc, now) ==
    SystemConfiguration(
        FromDict(Get(doc, "classification_thresholds", <<>>), ClassificationFields,
                 DefaultClassificationThresholds),
        PriorityWeightsPostInit(
            FromDict(Get(doc, "priority_weights", <<>>), PriorityFields,
                     DefaultPriorityWeightsRaw)),
        FromDict(Get(doc, "quality_thresholds", <<>>), QualityFields,
                 DefaultQualityThresholds),
        FromDict(Get(doc, "agent_settings", <<>>), AgentFields, DefaultAgentSettings),
        FromDict(Get(doc, "processing_rules", <<>>), RuleFields, DefaultProcessingRules),
        Get(doc, "version", "1.0.0"),
        Get(doc, "last_updated", NoTimestamp),
        Get(doc, "created_by", "system"), now)

get_classification_threshold(cfg, category) ==
    LET ct == cfg.classification_thresholds IN
    CASE category = "Bug" -> ct.bug_threshold
      [] category = "Feature Request" -> ct.feature_threshold
      [] category = "Praise" -> ct.praise_threshold
      [] category = "Complaint" -> ct.complaint_threshold
      [] category = "Spam" -> ct.spam_threshold
      [] OTHER -> ct.minimum_confidence

--------------------------------------------------------------------------
(* config_manager.py: ConfigurationManager *)

\* arguments as callers pass them: a number, or a string that is not a number
Num(n) == [t |-> "num", v |-> n]
Str(x) == [t |-> "str", s |-> x]
Kw(k, raw) == [key |-> k, val |-> raw]

\* which coercion update_<section> applies to kwargs key k ("skip": the key is
\* not an attribute of the section, or is a *_mapping of priority_weights)
FieldKind(section, k) ==
    CASE section = "classification_thresholds" ->
            IF k \in ClassificationFields THEN "float" ELSE "skip"
      [] section = "priority_weights" ->
            IF k \in WeightFields THEN "float" ELSE "skip"
      [] section = "quality_thresholds" ->
            IF k \in QualityFields THEN "float" ELSE "skip"
      [] section = "agent_settings" ->
            IF k \in TimeoutFields THEN "int"
            ELSE IF k \in AgentFields THEN "bool" ELSE "skip"
      [] section = "processing_rules" ->
            IF k \in RuleIntFields THEN "int"
            ELSE IF k \in RuleFields THEN "bool" ELSE "skip"

\* float(value) / int(value) raise ValueError on a non-numeric string;
\* bool(value) never raises
CoerceRaises(kind, raw) == kind \in {"float", "int"} /\ raw.t = "str"
Coerce(kind, raw) ==
    IF kind = "bool"
    THEN (IF raw.t = "num" THEN raw.v # 0 ELSE Len(raw.s) > 0)
    ELSE raw.v

\* the for loop of update_<section>: setattr per accepted key, in kwargs order,
\* until a coercion raises
RECURSIVE ApplyKwargs(_, _, _, _)
ApplyKwargs(section, sec, kwargs, i) ==
    IF i > Len(kwargs) THEN [sec |-> sec, raised |-> FALSE]
    ELSE LET k == kwargs[i].key
             kind == FieldKind(section, k)
         IN  IF kind = "skip" THEN ApplyKwargs(section, sec, kwargs, i + 1)
             ELSE IF CoerceRaises(kind, kwargs[i].val)
                  THEN [sec |-> sec, raised |-> TRUE]
                  ELSE ApplyKwargs(section,
                                   [sec EXCEPT ![k] = Coerce(kind, kwargs[i].val)],
                                   kwargs, i + 1)

Missing == [kind |-> "missing"]
Malformed == [kind |-> "malformed"]
Unreadable == [kind |-> "unreadable"]
Json(doc) == [kind |-> "json", doc |-> doc]

MainFile == "system_config.json"
BackupOf(f) == f \o ".backup"

\* ghost: the call just made, its argument and whether it returned True
Called(op, arg, ok) == [op |-> op, arg |-> arg, ok |-> ok]
FirstCall == Called("init", "", TRUE)

PipelineIdle ==
    UNCHANGED <<logger, log_file, system, outputs, text_in, all_data, idx,
                results, result_cfg, pc, frame, upd, rd>>

\* save_configuration on configuration cfg at time now; wrote: the file write
\* succeeded.  last_updated is set before the write is attempted.
Stamped(cfg, now) == [cfg EXCEPT !.last_updated = now]
Written(fs, name, cfg, wrote) ==
    IF wrote THEN [fs EXCEPT ![name] = Json(asdict(cfg))] ELSE fs

\* update_classification_thresholds, update_priority_weights,
\* update_quality_thresholds, update_agent_settings, update_processing_rules
update_section(section, kwargs, wrote) ==
    LET r == ApplyKwargs(section, config[section], kwargs, 1)
        changed == [config EXCEPT ![section] = r.sec]
    IN  IF r.raised
        THEN /\ config' = changed
             /\ last_result' = Called("update_" \o section, kwargs, FALSE)
             /\ UNCHANGED <<clock, files>>
        ELSE /\ config' = Stamped(changed, clock)
             /\ clock' = clock + 1
             /\ files' = Written(files, config_file, config', wrote)
             /\ last_result' = Called("update_" \o section, kwargs, wrote)

reset_to_defaults(wrote) ==
    /\ config' = Stamped(create_default_configuration(clock), clock + 1)
    /\ clock' = clock + 2
    /\ files' = Written(files, config_file, config', wrote)
    /\ last_result' = Called("reset_to_defaults", "", wrote)

export_configuration(export_file, wrote) ==
    /\ files' = Written(files, export_file, config, wrote)
    /\ last_result' = Called("export_configuration", export_file, wrote)
    /\ UNCHANGED <<config, clock>>

\* a load_configuration that creates the defaults without saving them
LoadConfigurationNoSave(fs, name, now, wrote) ==
    IF fs[name].kind = "json" /\ ~LoadRaises(fs[name].doc)
    THEN [config |-> Loaded(fs[name].doc, now), files |-> fs,
          clock |-> IF Get(fs[name].doc, "last_updated", NoTimestamp) = NoTimestamp
                    THEN now + 1 ELSE now]
    ELSE [config |-> Stamped(create_default_configuration(now), now + 1),
          files |-> fs, clock |-> now + 2]

\* load_configuration with self.config_file = name on file system fs: the
\* configuration in effect afterwards, the file system and the clock
load_configuration(fs, name, now, wrote) ==
    IF fs[name].kind = "json" /\ ~LoadRaises(fs[name].doc)
    THEN [config |-> Loaded(fs[name].doc, now), files |-> fs,
          clock |-> IF Get(fs[name].doc, "last_updated", NoTimestamp) = NoTimestamp
                    THEN now + 1 ELSE now]
    ELSE LET dflt == Stamped(create_default_configuration(now), now + 1)
         IN  [config |-> dflt, files |-> Written(fs, name, dflt, wrote),
              clock |-> now + 2]

\* import_configuration.  backed: the write of the backup succeeded (the
\* result of export_configuration is not looked at); restored: the write of
\* the defaults that load_configuration makes when the import file cannot be
\* loaded; wrote: the final save_configuration, whose result is returned.
import_configuration(import_file, backed, restored, wrote) ==
    IF files[import_file].kind = "missing"
    THEN /\ last_result' = Called("import_configuration", import_file, FALSE)
         /\ UNCHANGED <<config, clock, files>>
    ELSE LET backedUp == Written(files, BackupOf(config_file), config, backed)
             l == load_configuration(backedUp, import_file, clock, restored)
         IN  /\ config' = Stamped(l.config, l.clock)
             /\ clock' = l.clock + 1
             /\ files' = Written(l.files, config_file, config', wrote)
             /\ last_result' = Called("import_configuration", import_file, wrote)

\* validate_configuration: the issues and warnings lists
Abs(x) == IF x < 0 THEN -x ELSE x
ValidationIssues(cfg) ==
    LET ct == cfg.classification_thresholds
        qt == cfg.quality_thresholds
    IN  {f \in ClassificationFields : ~(0 <= ct[f] /\ ct[f] <= 100)}
        \cup (IF qt.reject_threshold >= qt.manual_review_threshold
              THEN {"reject_order"} ELSE {})
        \cup (IF qt.manual_review_threshold >= qt.auto_approve_threshold
              THEN {"manual_review_order"} ELSE {})
ValidationWarnings(cfg) ==
    LET pw == cfg.priority_weights
        weights_sum == pw.bug_severity_weight + pw.user_impact_weight
                       + pw.technical_complexity_weight + pw.business_priority_weight
    IN  IF Abs(weights_sum - 100) > 10 THEN {"weights_sum"} ELSE {}
\* (variant: a warning makes the configuration invalid)
ValidateConfigurationStrict(cfg) ==
    [valid |-> ValidationIssues(cfg) = {} /\ ValidationWarnings(cfg) = {},
     issues |-> ValidationIssues(cfg),
     warnings |-> ValidationWarnings(cfg)]
validate_configuration(cfg) ==
    [valid |-> ValidationIssues(cfg) = {},
     issues |-> ValidationIssues(cfg),
     warnings |-> ValidationWarnings(cfg)]

--------------------------------------------------------------------------
(* multi_agent_system.py: ClassificationTool *)

bug_keywords ==
    <<"crash", "error", "bug", "issue", "problem", "broken", "not working",
      "freezes", "stuck", "fails", "wrong", "incorrect", "lost data">>
feature_keywords ==
    <<"please add", "would love", "suggestion", "feature request",
      "missing", "need", "want", "wish", "improve", "enhancement">>
praise_keywords ==
    <<"amazing", "great", "love", "perfect", "excellent", "awesome",
      "fantastic", "wonderful", "best", "recommended">>
complaint_keywords ==
    <<"expensive", "slow", "poor", "bad", "terrible", "horrible",
      "disappointed", "frustrated", "angry">>
spam_keywords ==
    <<"click here", "www.", "money", "deal", "offer", "contact us",
      "asdf", "random">>

\* the keys of the scores dict, in insertion order
ScoreKeys == <<"Bug", "Feature Request", "Praise", "Complaint", "Spam">>

Scores(text) ==
    LET text_lower == lower(text) IN
    [Bug |-> CountIn(bug_keywords, text_lower),
     Feature |-> CountIn(feature_keywords, text_lower),
     Praise |-> CountIn(praise_keywords, text_lower),
     Complaint |-> CountIn(complaint_keywords, text_lower),
     Spam |-> CountIn(spam_keywords, text_lower)]

ScoreOf(scores, category) ==
    CASE category = "Bug" -> scores.Bug
      [] category = "Feature Request" -> scores.Feature
      [] category = "Praise" -> scores.Praise
      [] category = "Complaint" -> scores.Complaint
      [] category = "Spam" -> scores.Spam

ScoreSum(scores) ==
    scores.Bug + scores.Feature + scores.Praise + scores.Complaint + scores.Spam

\* the builtin max(scores, key=scores.get): the first key whose value no later
\* key exceeds strictly
RECURSIVE PyMaxFrom(_, _, _)
PyMaxFrom(scores, best, i) ==
    IF i > Len(ScoreKeys) THEN best
    ELSE IF ScoreOf(scores, ScoreKeys[i]) > ScoreOf(scores, best)
         THEN PyMaxFrom(scores, ScoreKeys[i], i + 1)
         ELSE PyMaxFrom(scores, best, i + 1)

\* (variant: ties resolved towards the last key)
PyMaxLast(scores) ==
    CHOOSE c \in {ScoreKeys[i] : i \in DOMAIN ScoreKeys} :
        \A j \in DOMAIN ScoreKeys :
            /\ ScoreOf(scores, ScoreKeys[j]) <= ScoreOf(scores, c)
            /\ (ScoreOf(scores, ScoreKeys[j]) = ScoreOf(scores, c)
                    => \E k \in DOMAIN ScoreKeys : ScoreKeys[k] = c /\ j <= k)

PyMax(scores) == PyMaxFrom(scores, ScoreKeys[1], 2)

Max2(a, b) == IF a >= b THEN a ELSE b

\* (variant: the confidence is the winning keyword count, not its share)
ClassifyWithCount(text, threshold, minimum) ==
    LET scores == Scores(text)
        category == PyMax(scores)
        num == ScoreOf(scores, category)
        den == Max2(1, ScoreSum(scores))
        Below(x) == num * 100 < x * den
        uncertain == Below(threshold) /\ Below(minimum)
    IN  [category |-> IF uncertain THEN "Uncertain" ELSE category,
         confidence |-> IF uncertain THEN <<num * 50, 1>> ELSE <<num * 100, 1>>,
         scores |-> scores,
         threshold_used |-> threshold,
         meets_threshold |-> ~Below(threshold)]

\* (variant: the gate looks at the category threshold alone)
ClassifyWithOneGate(text, threshold, minimum) ==
    LET scores == Scores(text)
        category == PyMax(scores)
        num == ScoreOf(scores, category)
        den == Max2(1, ScoreSum(scores))
        uncertain == num * 100 < threshold * den
    IN  [category |-> IF uncertain THEN "Uncertain" ELSE category,
         confidence |-> IF uncertain THEN <<num * 50, den>> ELSE <<num * 100, den>>,
         scores |-> scores,
         threshold_used |-> threshold,
         meets_threshold |-> ~uncertain]

\* ClassificationTool._run after the config reads: threshold and minimum are
\* the two values read from the configuration
ClassifyWith(text, threshold, minimum) ==
    LET scores == Scores(text)
        category == PyMax(scores)
        num == ScoreOf(scores, category)
        den == Max2(1, ScoreSum(scores))
        \* raw_confidence < x, x in hundredths
        Below(x) == num * 100 < x * den
        uncertain == Below(threshold) /\ Below(minimum)
    IN  [category |-> IF uncertain THEN "Uncertain" ELSE category,
         confidence |-> IF uncertain THEN <<num * 50, den>> ELSE <<num * 100, den>>,
         scores |-> scores,
         threshold_used |-> threshold,
         meets_threshold |-> ~Below(threshold)]

classification_tool_run(text, cfg) ==
    ClassifyWith(text,
                 get_classification_threshold(cfg, PyMax(Scores(text))),
                 cfg.classification_thresholds.minimum_confidence)

--------------------------------------------------------------------------
(* The configuration manager driven by its callers (ui_app.py, tests) *)

MaxClock == 5

ExportFiles == {"export_a.json", "export_b.json"}
ImportFiles == ExportFiles \cup {"partial.json", "garbage.json", "absent.json"}
FileNames == {MainFile, BackupOf(MainFile)} \cup ImportFiles

\* a hand-written document that names only some sections and fields
PartialDoc ==
    [quality_thresholds |-> [reject_threshold |-> 10],
     version |-> "2.0.0", created_by |-> "admin"]

ClassificationUpdates ==
    {<<Kw("bug_threshold", Num(80))>>,
     <<Kw("bug_threshold", Num(150))>>,
     <<Kw("minimum_confidence", Num(30)), Kw("spam_threshold", Str("abc"))>>}
QualityUpdates ==
    {<<Kw("manual_review_threshold", Num(30))>>,
     <<Kw("reject_threshold", Num(40)), Kw("manual_review_threshold", Num(60)),
       Kw("auto_approve_threshold", Num(90))>>}
WeightUpdates == {<<Kw("bug_severity_weight", Num(90)), Kw("bug_priority_mapping", Num(1))>>}
AgentUpdates == {<<Kw("enable_bug_analysis", Num(0)), Kw("no_such_setting", Num(1))>>}
RuleUpdates == {<<Kw("batch_size", Num(20))>>}

\* ConfigurationManager() on a machine without system_config.json:
\* load_configuration creates the defaults and saves them
ConstructedAt(now) ==
    load_configuration([f \in FileNames |->
                           CASE f = "partial.json" -> Json(PartialDoc)
                             [] f = "garbage.json" -> Malformed
                             [] OTHER -> Missing],
                       MainFile, now, TRUE)

\* no call made yet
InitCalls ==
    /\ config_file = MainFile
    /\ last_result = FirstCall

\* no logger created, no log written
InitLogger ==
    /\ logger = [global |-> 0, objs |-> <<>>]
    /\ log_file = [exists |-> FALSE, writable |-> TRUE, rows |-> <<>>]

\* no batch running, no other thread active
InitBatch ==
    /\ system = NONE
    /\ outputs = [written |-> FALSE, tickets |-> <<>>, metrics |-> <<>>]
    /\ all_data = <<>>
    /\ idx = 0
    /\ results = <<>>
    /\ result_cfg = <<>>
    /\ pc = "idle"
    /\ frame = <<>>
    /\ upd = <<>>
    /\ rd = [pc |-> "idle"]

InitOther ==
    /\ InitCalls
    /\ InitLogger
    /\ InitBatch
    /\ text_in = ""

InitConfig ==
    /\ InitOther
    /\ config = ConstructedAt(1).config
    /\ files = ConstructedAt(1).files
    /\ clock = ConstructedAt(1).clock

UpdateClassificationThresholds ==
    \E kwargs \in ClassificationUpdates, wrote \in BOOLEAN :
        update_section("classification_thresholds", kwargs, wrote)
UpdatePriorityWeights ==
    \E kwargs \in WeightUpdates, wrote \in BOOLEAN :
        update_section("priority_weights", kwargs, wrote)
UpdateQualityThresholds ==
    \E kwargs \in QualityUpdates, wrote \in BOOLEAN :
        update_section("quality_thresholds", kwargs, wrote)
UpdateAgentSettings ==
    \E kwargs \in AgentUpdates, wrote \in BOOLEAN :
        update_section("agent_settings", kwargs, wrote)
UpdateProcessingRules ==
    \E kwargs \in RuleUpdates, wrote \in BOOLEAN :
        update_section("processing_rules", kwargs, wrote)
ResetToDefaults == \E wrote \in BOOLEAN : reset_to_defaults(wrote)
ExportConfiguration ==
    \E f \in ExportFiles, wrote \in BOOLEAN : export_configuration(f, wrote)
ImportConfiguration ==
    \E f \in ImportFiles :
        IF files[f].kind = "missing"
        THEN import_configuration(f, TRUE, TRUE, TRUE)
        ELSE \E backed, wrote \in BOOLEAN :
                \E restored \in IF files[f].kind = "json" /\ ~LoadRaises(files[f].doc)
                                 THEN {TRUE} ELSE BOOLEAN :
                    import_configuration(f, backed, restored, wrote)
ValidateConfiguration ==
    /\ last_result' = [op |-> "validate_configuration", arg |-> "",
                       ok |-> validate_configuration(config).valid,
                       out |-> validate_configuration(config)]
    /\ UNCHANGED <<config, clock, files>>

ConfigFrame ==
    /\ UNCHANGED config_file
    /\ PipelineIdle
    /\ clock' <= MaxClock

NextConfig ==
    \/ UpdateClassificationThresholds /\ ConfigFrame
    \/ UpdatePriorityWeights /\ ConfigFrame
    \/ UpdateQualityThresholds /\ ConfigFrame
    \/ UpdateAgentSettings /\ ConfigFrame
    \/ UpdateProcessingRules /\ ConfigFrame
    \/ ResetToDefaults /\ ConfigFrame
    \/ ValidateConfiguration /\ ConfigFrame

SpecConfig == InitConfig /\ [][NextConfig]_vars

\* export / import between files, from the configuration of a fresh install
\* or of an install whose thresholds were edited
MaxExchangeClock == 4

\* system_config.json as an earlier run left it after raising the bug threshold
EditedDoc ==
    asdict([create_default_configuration(1) EXCEPT
                !.classification_thresholds.bug_threshold = 80])

InitExchange ==
    \E main \in {Missing, Json(EditedDoc)} :
        LET made == load_configuration([ConstructedAt(1).files EXCEPT ![MainFile] = main],
                                       MainFile, 1, TRUE)
        IN  /\ InitOther
            /\ config = made.config
            /\ files = made.files
            /\ clock = Max2(made.clock, 3)

ExchangeFrame ==
    /\ UNCHANGED config_file
    /\ PipelineIdle
    /\ clock' <= MaxExchangeClock

NextExchange ==
    \/ UpdateQualityThresholds /\ ExchangeFrame
    \/ ExportConfiguration /\ ExchangeFrame
    \/ ImportConfiguration /\ ExchangeFrame

SpecExchange == InitExchange /\ [][NextExchange]_vars

--------------------------------------------------------------------------
(* Properties of the configuration manager *)

\* the configuration a restart would load from the persisted store
Persisted == load_configuration(files, MainFile, clock, TRUE).config

\* C4: starting from a valid configuration, after any sequence of update_*
\* calls the configuration in effect, in memory and in the persisted store,
\* passes validate_configuration.
C4_UpdatesKeepConfigurationValid ==
    /\ validate_configuration(config).valid
    /\ validate_configuration(Persisted).valid

\* a document with its timestamp field blanked
StripTimestamp(doc) == [doc EXCEPT !.last_updated = NoTimestamp]

\* C10: when a file written by export_configuration is imported and the
\* configuration is then exported again, the two exported documents agree in
\* every field other than last_updated.
C10_RoundTrip ==
    [][(/\ last_result.op = "import_configuration"
        /\ last_result.ok
        /\ last_result.arg \in ExportFiles
        /\ last_result'.op = "export_configuration"
        /\ last_result'.ok)
       => /\ files[last_result.arg].kind = "json"
          /\ DOMAIN files'[last_result'.arg].doc = DOMAIN files[last_result.arg].doc
          /\ StripTimestamp(files'[last_result'.arg].doc)
               = StripTimestamp(files[last_result.arg].doc)]_vars

\* export to A, import of A, export to B happened on an edited configuration,
\* and the import re-stamped it in between
C10_Witness ==
    /\ last_result = Called("export_configuration", "export_b.json", TRUE)
    /\ files["export_a.json"].kind = "json"
    /\ files["export_a.json"].doc.classification_thresholds.bug_threshold = 80
    /\ files["export_a.json"].doc.last_updated < files["export_b.json"].doc.last_updated
    /\ StripTimestamp(files["export_a.json"].doc) = StripTimestamp(files["export_b.json"].doc)

--------------------------------------------------------------------------
(* The tools called on one text under one configuration *)

Texts ==
    {"",
     "hello there",
     "The app keeps CRASHING on login",
     "error and slow",
     "great bug, need money",
     "Please add dark mode, would love it",
     "terrible, slow and expensive but great",
     "click here www.deal.com",
     "slow great",
     "bad offer",
     "URGENT: data loss, app crashed",
     "Steps to reproduce the issue: open sync on iPhone"}

\* classification thresholds an operator may have set (update_* accepts any
\* float, so values outside [0,1] are included)
ThresholdConfigs ==
    {[DefaultClassificationThresholds EXCEPT
          !.bug_threshold = b, !.minimum_confidence = mc,
          !.feature_threshold = o, !.praise_threshold = o, !.complaint_threshold = o] :
        b \in {0, 40, 70, 150}, mc \in {0, 30, 50, 90}, o \in {20, 60}}

ToolCalled(op, arg, out) == [op |-> op, arg |-> arg, ok |-> TRUE, out |-> out]

InitTools ==
    /\ InitCalls
    /\ InitLogger
    /\ InitBatch
    /\ text_in \in Texts
    /\ \E ct \in ThresholdConfigs :
          config = [ConstructedAt(1).config EXCEPT !.classification_thresholds = ct]
    /\ files = [ConstructedAt(1).files EXCEPT ![MainFile] = Json(asdict(config))]
    /\ clock = ConstructedAt(1).clock

ClassificationToolRun ==
    /\ last_result.op = "init"
    /\ last_result' = ToolCalled("classification_tool_run", text_in,
                                 classification_tool_run(text_in, config))
    /\ UNCHANGED <<config, config_file, files, clock, text_in>>
    /\ UNCHANGED <<logger, log_file, system, outputs, all_data, idx, results,
                   result_cfg, pc, frame, upd, rd>>

NextTools == ClassificationToolRun

SpecTools == InitTools /\ [][NextTools]_vars

--------------------------------------------------------------------------
(* Properties of the classifier *)

\* the category with the highest score, the earliest of the enumeration
\* Bug, Feature Request, Praise, Complaint, Spam among equals
ArgMaxFirst(scores) ==
    LET order == <<"Bug", "Feature Request", "Praise", "Complaint", "Spam">>
        i == CHOOSE i \in 1..5 :
                /\ \A j \in 1..5 : ScoreOf(scores, order[j]) <= ScoreOf(scores, order[i])
                /\ \A j \in 1..(i - 1) : ScoreOf(scores, order[j]) < ScoreOf(scores, order[i])
    IN  order[i]

ThresholdOf(w) ==
    LET field == [Bug |-> "bug_threshold", Feature |-> "feature_threshold",
                  Praise |-> "praise_threshold", Complaint |-> "complaint_threshold",
                  Spam |-> "spam_threshold"]
    IN  config.classification_thresholds[
            field[IF w = "Feature Request" THEN "Feature" ELSE w]]

\* equality of two fractions <<num, den>>
FracEq(a, b) == a[1] * b[2] = b[1] * a[2]

Classified == last_result.op = "classification_tool_run"

\* C6: with w the arg-max category (ties in enumeration order) and
\* r = score(w) / max(1, sum of scores), the classifier reports Uncertain
\* with confidence r*50 exactly when r is below both threshold(w) and
\* minimum_confidence, and otherwise w with confidence r*100; in both cases
\* threshold_used = threshold(w) and meets_threshold = (r >= threshold(w)).
C6_ThresholdGate ==
    Classified =>
        LET out == last_result.out
            s == Scores(last_result.arg)
            w == ArgMaxFirst(s)
            num == ScoreOf(s, w)
            den == IF ScoreSum(s) < 1 THEN 1 ELSE ScoreSum(s)
            \* r < x for x in hundredths
            RBelow(x) == 100 * num < x * den
            gated == RBelow(ThresholdOf(w))
                     /\ RBelow(config.classification_thresholds.minimum_confidence)
        IN  /\ (out.category = "Uncertain") <=> gated
            /\ gated => FracEq(out.confidence, <<50 * num, den>>)
            /\ ~gated => out.category = w /\ FracEq(out.confidence, <<100 * num, den>>)
            /\ out.threshold_used = ThresholdOf(w)
            /\ out.meets_threshold = ~RBelow(ThresholdOf(w))

\* a tie between Praise and Complaint was resolved, and the result stayed
\* below the category threshold without being gated
C6_Witness ==
    /\ Classified
    /\ last_result.arg = "slow great"
    /\ last_result.out.category = "Praise"
    /\ ~last_result.out.meets_threshold
    /\ FracEq(last_result.out.confidence, <<50, 1>>)

\* a tie that ended Uncertain with the halved confidence
C6_WitnessGated ==
    /\ Classified
    /\ last_result.arg = "great bug, need money"
    /\ last_result.out.category = "Uncertain"
    /\ FracEq(last_result.out.confidence, <<25, 2>>)

ZeroKeywords(text) == ScoreSum(Scores(text)) = 0

\* C7 as stated: a text that matches no keyword of any category is reported
\* with confidence 0 and category Bug.
C7_ZeroKeywordsGiveBug ==
    (Classified /\ ZeroKeywords(last_result.arg)) =>
        /\ last_result.out.confidence[1] = 0
        /\ last_result.out.category = "Bug"

\* C7 amended: a text that matches no keyword is reported with confidence 0
\* and threshold_used = the Bug threshold (Bug wins the tie-break); the
\* category is Uncertain when bug_threshold and minimum_confidence are both
\* positive, and Bug otherwise.
C7_ZeroKeywordsGated ==
    (Classified /\ ZeroKeywords(last_result.arg)) =>
        /\ last_result.out.confidence[1] = 0
        /\ last_result.out.threshold_used = config.classification_thresholds.bug_threshold
        /\ last_result.out.category =
              IF /\ config.classification_thresholds.bug_threshold > 0
                 /\ config.classification_thresholds.minimum_confidence > 0
              THEN "Uncertain" ELSE "Bug"

\* a keyword-free text classified under the default thresholds
C7_Witness ==
    /\ Classified
    /\ last_result.arg = "hello there"
    /\ ZeroKeywords(last_result.arg)
    /\ config.classification_thresholds = DefaultClassificationThresholds
    /\ last_result.out.category = "Uncertain"

--------------------------------------------------------------------------
(* processing_logger.py: ProcessingLogger and the global instance.         *)
(* logger.objs[k] is the log_entries list of the k-th ProcessingLogger     *)
(* object created; logger.global is the object _processing_logger names    *)
(* (0 for None).  Objects are never destroyed in the model: a caller such  *)
(* as FeedbackAnalysisSystem keeps the reference it obtained.              *)

LogHeaders ==
    <<"timestamp", "session_id", "source_id", "source_type", "agent_name",
      "action_type", "decision_point", "input_data", "output_data",
      "confidence_score", "reasoning", "processing_time_ms", "success_status",
      "error_message", "metadata">>

\* Python values handed to log_agent_decision as input_data / output_data
PyStr(s) == [str |-> s]
PyDict(d) == [dict |-> d]

\* json.dumps(d): the JSON text, kept as the value it encodes
json_dumps(d) == [json |-> d]

\* json.dumps(v) if isinstance(v, (dict, list)) else str(v)[:500]
Snapshot(v) ==
    IF "dict" \in DOMAIN v THEN json_dumps(v.dict) ELSE PyStr(Prefix(v.str, 500))

\* bool(s) of a string
Truthy(s) == s # ""

\* a float given as a whole number
Whole(n) == <<n, 1>>

\* (variant: the header is written, and the file truncated, every time)
InitializeLogFileTruncating(lf) ==
    [lf EXCEPT !.exists = TRUE, !.rows = <<[header |-> LogHeaders]>>]

\* ProcessingLogger._initialize_log_file: the header row is written only
\* when the file does not exist
initialize_log_file(lf) ==
    IF lf.exists THEN lf
    ELSE [lf EXCEPT !.exists = TRUE, !.rows = <<[header |-> LogHeaders]>>]

\* the entry dict of log_agent_decision; a holds the keyword arguments given
DecisionEntry(now, a) ==
    [timestamp |-> now,
     session_id |-> a.session_id,
     source_id |-> a.source_id,
     source_type |-> a.source_type,
     agent_name |-> a.agent_name,
     action_type |-> a.action_type,
     decision_point |-> a.decision_point,
     input_data |-> Snapshot(a.input_data),
     output_data |-> Snapshot(a.output_data),
     confidence_score |->
        IF "confidence_score" \in DOMAIN a /\ a.confidence_score[1] # 0
        THEN a.confidence_score ELSE Whole(0),
     reasoning |-> Prefix(Get(a, "reasoning", ""), 1000),
     processing_time_ms |-> Get(a, "processing_time_ms", 0),
     success_status |-> Get(a, "success_status", TRUE),
     error_message |-> Prefix(Get(a, "error_message", ""), 500),
     metadata |-> json_dumps(Get(a, "metadata", <<>>))]

\* ProcessingLogger._write_entry_to_file: append one row; a failure to open
\* or write the file is swallowed
write_entry_to_file(lf, entry) ==
    IF lf.writable THEN [lf EXCEPT !.exists = TRUE, !.rows = Append(@, entry)]
    ELSE lf

\* ProcessingLogger.log_agent_decision on the logger object lg
log_agent_decision(lg, a) ==
    /\ logger' = [logger EXCEPT !.objs[lg] = Append(@, DecisionEntry(clock, a))]
    /\ log_file' = write_entry_to_file(log_file, DecisionEntry(clock, a))
    /\ clock' = clock + 1

log_classification_decision(lg, session_id, source_id, source_type, text, category, confidence, processing_time) ==
    log_agent_decision(lg,
        [session_id |-> session_id, source_id |-> source_id,
         source_type |-> source_type,
         agent_name |-> "Feedback Classifier Agent",
         action_type |-> "classification",
         decision_point |-> "feedback_categorization",
         input_data |-> PyStr(Prefix(text, 200)),
         output_data |-> PyDict([category |-> category, confidence |-> confidence]),
         confidence_score |-> confidence,
         reasoning |-> "Classified feedback as '" \o category
                          \o "' based on text patterns and keywords",
         processing_time_ms |-> processing_time,
         metadata |-> [text_length |-> Len(text)]])

log_bug_analysis_decision(lg, session_id, source_id, source_type, text, is_bug, severity, priority, reproduction_steps, processing_time) ==
    log_agent_decision(lg,
        [session_id |-> session_id, source_id |-> source_id,
         source_type |-> source_type,
         agent_name |-> "Bug Analysis Agent",
         action_type |-> "bug_analysis",
         decision_point |-> IF is_bug THEN "analyze_bug" ELSE "skip_non_bug",
         input_data |-> PyStr(Prefix(text, 200)),
         output_data |-> PyDict([is_bug |-> is_bug, severity |-> severity,
                                 priority |-> priority,
                                 has_reproduction_steps |-> Truthy(reproduction_steps)]),
         reasoning |-> IF is_bug
                       THEN "Analyzed as bug report with severity: " \o severity
                                \o ", priority: " \o priority
                       ELSE "Analyzed as non-bug item",
         processing_time_ms |-> processing_time,
         metadata |-> [reproduction_steps_available |-> Truthy(reproduction_steps)]])

log_feature_analysis_decision(lg, session_id, source_id, source_type, text, is_feature, impact, complexity, user_benefit, processing_time) ==
    log_agent_decision(lg,
        [session_id |-> session_id, source_id |-> source_id,
         source_type |-> source_type,
         agent_name |-> "Feature Extractor Agent",
         action_type |-> "feature_analysis",
         decision_point |-> IF is_feature THEN "analyze_feature" ELSE "skip_non_feature",
         input_data |-> PyStr(Prefix(text, 200)),
         output_data |-> PyDict([is_feature |-> is_feature, impact |-> impact,
                                 complexity |-> complexity,
                                 user_benefit |-> user_benefit]),
         reasoning |-> IF is_feature
                       THEN "Analyzed as feature request with impact: " \o impact
                                \o ", complexity: " \o complexity
                       ELSE "Analyzed as non-feature item",
         processing_time_ms |-> processing_time])

log_priority_decision(lg, session_id, source_id, source_type, text, category, priority, processing_time) ==
    log_agent_decision(lg,
        [session_id |-> session_id, source_id |-> source_id,
         source_type |-> source_type,
         agent_name |-> "Priority Analyzer Agent",
         action_type |-> "priority_assignment",
         decision_point |-> "determine_priority",
         input_data |-> PyDict([text |-> Prefix(text, 200), category |-> category]),
         output_data |-> PyDict([priority |-> priority]),
         reasoning |-> "Assigned '" \o priority \o "' priority based on category '"
                          \o category \o "' and content analysis",
         processing_time_ms |-> processing_time,
         metadata |-> [category |-> category]])

log_technical_extraction_decision(lg, session_id, source_id, source_type, text, technical_details, processing_time) ==
    LET has_technical_info == technical_details # "No technical details found" IN
    log_agent_decision(lg,
        [session_id |-> session_id, source_id |-> source_id,
         source_type |-> source_type,
         agent_name |-> "Technical Details Agent",
         action_type |-> "technical_extraction",
         decision_point |-> "extract_technical_info",
         input_data |-> PyStr(Prefix(text, 200)),
         output_data |-> PyDict([technical_details |-> technical_details]),
         reasoning |-> (IF has_technical_info THEN "Found" ELSE "No")
                          \o " technical details in feedback text",
         processing_time_ms |-> processing_time,
         metadata |-> [has_technical_info |-> has_technical_info]])

log_ticket_creation_decision(lg, session_id, source_id, source_type, title, category, priority, processing_time) ==
    log_agent_decision(lg,
        [session_id |-> session_id, source_id |-> source_id,
         source_type |-> source_type,
         agent_name |-> "Ticket Creator Agent",
         action_type |-> "ticket_creation",
         decision_point |-> "generate_ticket",
         input_data |-> PyDict([category |-> category, priority |-> priority]),
         output_data |-> PyDict([title |-> title,
                                 ticket_id |-> "TICKET-" \o source_id]),
         reasoning |-> "Created '" \o category \o "' ticket with '" \o priority
                          \o "' priority",
         processing_time_ms |-> processing_time,
         metadata |-> [category |-> category, priority |-> priority]])

log_quality_review_decision(lg, session_id, source_id, source_type, quality_score, status, issues, processing_time) ==
    log_agent_decision(lg,
        [session_id |-> session_id, source_id |-> source_id,
         source_type |-> source_type,
         agent_name |-> "Quality Reviewer Agent",
         action_type |-> "quality_review",
         decision_point |-> "assess_quality",
         input_data |-> PyStr("ticket-" \o source_id),
         output_data |-> PyDict([quality_score |-> quality_score, status |-> status,
                                 issues_count |-> Len(issues)]),
         confidence_score |-> Whole(quality_score),
         reasoning |-> "Quality assessment: " \o status \o " with score "
                          \o ToString(quality_score) \o "% ("
                          \o ToString(Len(issues)) \o " issues found)",
         processing_time_ms |-> processing_time,
         metadata |-> [issues |-> issues, status |-> status]])

\* round(x, 2) of the fraction num/den, in hundredths (half rounds up; the
\* quotients met here never fall on a half)
Round2(num, den) == (200 * num + den) \div (2 * den)

\* ProcessingLogger.log_session_summary: one six-field row appended to the
\* file, nothing added to log_entries; a failed append is swallowed
log_session_summary(lg, session_id, total_items, processing_time, success_count) ==
    LET summary_data ==
            [source_id |-> "SESSION_" \o Prefix(session_id, 8),
             source_type |-> "session_summary",
             category |-> "Summary",
             confidence |-> IF total_items > 0
                            THEN Round2(100 * success_count, total_items) ELSE 0,
             processing_time |-> clock,
             status |-> "Completed " \o ToString(success_count) \o "/"
                           \o ToString(total_items)]
    IN  /\ log_file' = write_entry_to_file(log_file, summary_data)
        /\ clock' = clock + 1
        /\ UNCHANGED logger

\* sums over a list of entries
RECURSIVE SumField(_, _)
SumField(entries, field) ==
    IF Len(entries) = 0 THEN 0
    ELSE entries[1][field] + SumField(Tail(entries), field)

FracAdd(a, b) == <<a[1] * b[2] + b[1] * a[2], a[2] * b[2]>>

RECURSIVE SumConfidence(_)
SumConfidence(entries) ==
    IF Len(entries) = 0 THEN Whole(0)
    ELSE FracAdd(entries[1].confidence_score, SumConfidence(Tail(entries)))

\* (variant: once the session has an entry, every entry is aggregated)
GetSessionStatsUnfiltered(log_entries, session_id) ==
    LET matching == SelectSeq(log_entries, LAMBDA e : e.session_id = session_id)
        session_entries == IF Len(matching) = 0 THEN <<>> ELSE log_entries
        successful == SelectSeq(session_entries, LAMBDA e : e.success_status)
        agents == {session_entries[i].agent_name : i \in DOMAIN session_entries}
        Of(agent) == SelectSeq(session_entries, LAMBDA e : e.agent_name = agent)
    IN  IF Len(session_entries) = 0 THEN <<>>
        ELSE [session_id |-> session_id,
              total_operations |-> Len(session_entries),
              successful_operations |-> Len(successful),
              success_rate |-> <<Len(successful), Len(session_entries)>>,
              total_processing_time_ms |-> SumField(session_entries, "processing_time_ms"),
              agent_statistics |->
                 [agent \in agents |->
                    [count |-> Len(Of(agent)),
                     avg_confidence |->
                        <<SumConfidence(Of(agent))[1],
                          SumConfidence(Of(agent))[2] * Len(Of(agent))>>,
                     total_time |-> SumField(Of(agent), "processing_time_ms")]],
              timestamp |-> session_entries[1].timestamp]

\* ProcessingLogger.get_session_stats over the list log_entries
get_session_stats(log_entries, session_id) ==
    LET session_entries == SelectSeq(log_entries, LAMBDA e : e.session_id = session_id)
        successful == SelectSeq(session_entries, LAMBDA e : e.success_status)
        agents == {session_entries[i].agent_name : i \in DOMAIN session_entries}
        Of(agent) == SelectSeq(session_entries, LAMBDA e : e.agent_name = agent)
    IN  IF Len(session_entries) = 0 THEN <<>>
        ELSE [session_id |-> session_id,
              total_operations |-> Len(session_entries),
              successful_operations |-> Len(successful),
              success_rate |-> <<Len(successful), Len(session_entries)>>,
              total_processing_time_ms |-> SumField(session_entries, "processing_time_ms"),
              agent_statistics |->
                 [agent \in agents |->
                    [count |-> Len(Of(agent)),
                     avg_confidence |->
                        <<SumConfidence(Of(agent))[1],
                          SumConfidence(Of(agent))[2] * Len(Of(agent))>>,
                     total_time |-> SumField(Of(agent), "processing_time_ms")]],
              timestamp |-> session_entries[1].timestamp]

\* ProcessingLogger(log_file): a new object with no entries
NewProcessingLogger ==
    /\ logger' = [global |-> Len(logger.objs) + 1, objs |-> Append(logger.objs, <<>>)]
    /\ log_file' = initialize_log_file(log_file)

\* get_processing_logger(): creates the global instance on first use
get_processing_logger ==
    IF logger.global = 0 THEN NewProcessingLogger
    ELSE UNCHANGED <<logger, log_file>>

\* reset_processing_logger(): the global instance becomes a new object
reset_processing_logger == NewProcessingLogger

--------------------------------------------------------------------------
(* The processing logger driven by its callers *)

MaxLogClock == 4
MaxLoggers == 2

\* uuid4 strings of two sessions
SessionIds == {"3f2a9c1e-77aa", "7b1d4e60-02cd"}

\* who logs: the session, the item and its kind
LogCallers ==
    {[session_id |-> "3f2a9c1e-77aa", source_id |-> "R1",
      source_type |-> "app_store_review", text |-> "The app keeps CRASHING on login"]}

\* the same and a caller of another session
ClassifierCallers ==
    LogCallers \cup
    {[session_id |-> "7b1d4e60-02cd", source_id |-> "E1",
      source_type |-> "support_email", text |-> "Dark mode Please add dark mode"]}

LoggerFrame ==
    /\ UNCHANGED <<config, config_file, files, system, outputs, text_in, all_data,
                   idx, results, result_cfg, pc, frame, upd, rd>>
    /\ clock' <= MaxLogClock

InitLoggerSpec ==
    /\ InitCalls
    /\ InitBatch
    /\ text_in = ""
    /\ config = ConstructedAt(1).config
    /\ files = ConstructedAt(1).files
    /\ clock = ConstructedAt(1).clock
    /\ logger = [global |-> 0, objs |-> <<>>]
    /\ \E lf \in {[exists |-> FALSE, writable |-> TRUE, rows |-> <<>>],
                  [exists |-> TRUE, writable |-> TRUE,
                   rows |-> <<[header |-> LogHeaders]>>]} : log_file = lf

GetProcessingLogger ==
    /\ get_processing_logger
    /\ last_result' = Called("get_processing_logger", "", TRUE)
    /\ UNCHANGED clock

ResetProcessingLogger ==
    /\ Len(logger.objs) < MaxLoggers
    /\ reset_processing_logger
    /\ last_result' = Called("reset_processing_logger", "", TRUE)
    /\ UNCHANGED clock

LogClassificationDecision ==
    \E lg \in DOMAIN logger.objs, c \in ClassifierCallers :
        /\ log_classification_decision(lg, c.session_id, c.source_id, c.source_type,
               c.text, "Bug", <<100, 1>>, 0)
        /\ last_result' = Called("log_classification_decision", c.source_id, TRUE)

LogBugAnalysisDecision ==
    \E lg \in DOMAIN logger.objs, c \in LogCallers :
        /\ \/ log_bug_analysis_decision(lg, c.session_id, c.source_id, c.source_type,
                  c.text, TRUE, "High", "High", "No steps provided", 0)
           \/ log_bug_analysis_decision(lg, c.session_id, c.source_id, c.source_type,
                  c.text, FALSE, "N/A", "N/A", "", 0)
        /\ last_result' = Called("log_bug_analysis_decision", c.source_id, TRUE)

LogFeatureAnalysisDecision ==
    \E lg \in DOMAIN logger.objs, c \in LogCallers :
        /\ log_feature_analysis_decision(lg, c.session_id, c.source_id, c.source_type,
               c.text, FALSE, "N/A", "N/A", "", 0)
        /\ last_result' = Called("log_feature_analysis_decision", c.source_id, TRUE)

LogPriorityDecision ==
    \E lg \in DOMAIN logger.objs, c \in LogCallers :
        /\ log_priority_decision(lg, c.session_id, c.source_id, c.source_type,
               c.text, "Bug", "High", 0)
        /\ last_result' = Called("log_priority_decision", c.source_id, TRUE)

LogTechnicalExtractionDecision ==
    \E lg \in DOMAIN logger.objs, c \in LogCallers :
        /\ log_technical_extraction_decision(lg, c.session_id, c.source_id,
               c.source_type, c.text, "No technical details found", 0)
        /\ last_result' = Called("log_technical_extraction_decision", c.source_id, TRUE)

LogTicketCreationDecision ==
    \E lg \in DOMAIN logger.objs, c \in LogCallers :
        /\ log_ticket_creation_decision(lg, c.session_id, c.source_id, c.source_type,
               "Fix: Application crash issue", "Bug", "High", 0)
        /\ last_result' = Called("log_ticket_creation_decision", c.source_id, TRUE)

LogQualityReviewDecision ==
    \E lg \in DOMAIN logger.objs, c \in LogCallers :
        /\ \/ log_quality_review_decision(lg, c.session_id, c.source_id,
                  c.source_type, 100, "approved", <<>>, 0)
           \/ log_quality_review_decision(lg, c.session_id, c.source_id,
                  c.source_type, 0, "needs_review",
                  <<"Missing title", "Missing description", "Missing category",
                    "Missing priority", "Description too short",
                    "Low confidence score">>, 0)
        /\ last_result' = Called("log_quality_review_decision", c.source_id, TRUE)

LogSessionSummary ==
    \E lg \in DOMAIN logger.objs, s \in SessionIds, total \in {0, 3} :
        /\ log_session_summary(lg, s, total, 0, IF total = 0 THEN 0 ELSE 2)
        /\ last_result' = Called("log_session_summary", s, TRUE)

GetSessionStats ==
    \E lg \in DOMAIN logger.objs, s \in SessionIds :
        /\ last_result' = [op |-> "get_session_stats", arg |-> s, ok |-> TRUE,
                            out |-> get_session_stats(logger.objs[lg], s), lg |-> lg]
        /\ UNCHANGED <<logger, log_file, clock>>

\* the operator or the file system changes whether the log can be written
ChangeLogFileMode ==
    /\ log_file.exists
    /\ log_file' = [log_file EXCEPT !.writable = ~@]
    /\ UNCHANGED <<logger, clock, last_result>>

NextLogger ==
    \/ GetProcessingLogger /\ LoggerFrame
    \/ ResetProcessingLogger /\ LoggerFrame
    \/ LogClassificationDecision /\ LoggerFrame
    \/ LogBugAnalysisDecision /\ LoggerFrame
    \/ LogFeatureAnalysisDecision /\ LoggerFrame
    \/ LogPriorityDecision /\ LoggerFrame
    \/ LogTechnicalExtractionDecision /\ LoggerFrame
    \/ LogTicketCreationDecision /\ LoggerFrame
    \/ LogQualityReviewDecision /\ LoggerFrame
    \/ LogSessionSummary /\ LoggerFrame
    \/ GetSessionStats /\ LoggerFrame
    \/ ChangeLogFileMode /\ LoggerFrame

SpecLogger == InitLoggerSpec /\ [][NextLogger]_vars

--------------------------------------------------------------------------
(* Properties of the processing logger *)

\* the entries of the logger that get_processing_logger() returns
AuditLog == IF logger.global = 0 THEN <<>> ELSE logger.objs[logger.global]

IsPrefix(s, t) == Len(s) <= Len(t) /\ SubSeq(t, 1, Len(s)) = s

--------------------------------------------------------------------------
(* multi_agent_system.py: PriorityTool and TechnicalDetailsTool *)

critical_keywords ==
    <<"urgent", "critical", "data loss", "cannot login", "crashed", "lost all",
      "business", "important">>
high_keywords == <<"crash", "error", "bug", "broken", "not working", "issue">>

\* (variant: the category decides before the critical keywords are looked at)
PriorityToolCategoryFirst(text, category) ==
    LET text_lower == lower(text) IN
    IF category = "Bug" /\ AnyIn(high_keywords, text_lower) THEN "High"
    ELSE IF AnyIn(critical_keywords, text_lower) THEN "Critical"
    ELSE IF category \in {"Feature Request", "Complaint"} THEN "Medium"
    ELSE "Low"

\* PriorityTool._run
priority_tool_run(text, category) ==
    LET text_lower == lower(text) IN
    IF AnyIn(critical_keywords, text_lower) THEN "Critical"
    ELSE IF category = "Bug" /\ AnyIn(high_keywords, text_lower) THEN "High"
    ELSE IF category = "Feature Request" THEN "Medium"
    ELSE IF category = "Complaint" THEN "Medium"
    ELSE IF category \in {"Praise", "Spam"} THEN "Low"
    ELSE "Low"

devices == <<"iphone", "ipad", "android", "samsung", "galaxy", "pixel", "huawei">>

\* s[i] as a string, "" past the end
CharAt(s, i) == IF i >= 1 /\ i <= Len(s) THEN SubSeq(s, i, i) ELSE ""

\* regular-expression classes \d and \s (ASCII)
IsDigit(c) == c \in {"0", "1", "2", "3", "4", "5", "6", "7", "8", "9"}
IsSpace(c) == c \in {" ", "\t", "\n", "\r", "\f"}

\* the index just after the longest run of digits / of spaces starting at i
RECURSIVE DigitsEnd(_, _)
DigitsEnd(s, i) == IF IsDigit(CharAt(s, i)) THEN DigitsEnd(s, i + 1) ELSE i
RECURSIVE SpacesEnd(_, _)
SpacesEnd(s, i) == IF IsSpace(CharAt(s, i)) THEN SpacesEnd(s, i + 1) ELSE i

\* (\d+\.?\d*) matched at q: the index just after the group, 0 for no match
NumberEnd(s, q) ==
    LET d == DigitsEnd(s, q) IN
    IF d = q THEN 0
    ELSE IF CharAt(s, d) = "." THEN DigitsEnd(s, d + 1) ELSE d

\* (\d+\.\d+\.?\d*) matched at q: the index just after the group, 0 for no match
VersionEnd(s, q) ==
    LET d == DigitsEnd(s, q)
        e == DigitsEnd(s, d + 1)
    IN  IF d = q \/ CharAt(s, d) # "." \/ e = d + 1 THEN 0
        ELSE IF CharAt(s, e) = "." THEN DigitsEnd(s, e + 1) ELSE e

\* re.search(word \s* group, s).group(1), the group being the version
\* pattern or the number pattern; NONE when the pattern matches nowhere
ReSearch(word, group, s) ==
    LET End(t, q) == IF group = "version" THEN VersionEnd(t, q) ELSE NumberEnd(t, q)
        Start(p) == SpacesEnd(s, p + Len(word))
        hits == {p \in 1..(Len(s) - Len(word) + 1) :
                    /\ SubSeq(s, p, p + Len(word) - 1) = word
                    /\ End(s, Start(p)) # 0}
    IN  IF hits = {} THEN NONE
        ELSE LET p == CHOOSE p \in hits : \A o \in hits : p <= o
             IN  SubSeq(s, Start(p), End(s, Start(p)) - 1)

\* sep.join(parts)
RECURSIVE Join(_, _)
Join(sep, parts) ==
    IF Len(parts) = 0 THEN ""
    ELSE IF Len(parts) = 1 THEN parts[1]
    ELSE parts[1] \o sep \o Join(sep, Tail(parts))

\* [f(x) for x in xs if x in s]
RECURSIVE DevicesIn(_, _)
DevicesIn(xs, s) ==
    IF Len(xs) = 0 THEN <<>>
    ELSE (IF Contains(xs[1], s) THEN <<"Device: " \o xs[1]>> ELSE <<>>)
            \o DevicesIn(Tail(xs), s)

\* TechnicalDetailsTool._run
technical_tool_run(text) ==
    LET text_lower == lower(text)
        ios_match == ReSearch("ios", "number", text_lower)
        android_match == ReSearch("android", "number", text_lower)
        version_match == ReSearch("version", "version", text_lower)
        details ==
            DevicesIn(devices, text_lower)
            \o (IF ios_match # NONE THEN <<"iOS: " \o ios_match>> ELSE <<>>)
            \o (IF android_match # NONE THEN <<"Android: " \o android_match>> ELSE <<>>)
            \o (IF version_match # NONE THEN <<"App Version: " \o version_match>> ELSE <<>>)
            \o (IF Contains("steps", text_lower) \/ Contains("reproduce", text_lower)
                THEN <<"Contains reproduction steps">> ELSE <<>>)
    IN  IF Len(details) > 0 THEN Join("; ", details)
        ELSE "No technical details found"

--------------------------------------------------------------------------
(* multi_agent_system.py: FeedbackAnalysisSystem, the manual agents *)

\* (variant: the analyzer decides from the bug keywords of the text, not from
\* the category it is handed)
BugAnalyzerOwnVerdict(text, category) ==
    LET text_lower == lower(text) IN
    IF ~AnyIn(bug_keywords, text_lower)
    THEN [is_bug |-> FALSE,
          technical_details |-> "N/A - not a bug report",
          severity |-> "N/A",
          priority |-> "N/A"]
    ELSE [is_bug |-> TRUE,
          technical_details |-> technical_tool_run(text),
          severity |->
             IF AnyIn(<<"crash", "data loss", "cannot", "critical", "urgent">>, text_lower)
             THEN "High"
             ELSE IF AnyIn(<<"error", "issue", "problem", "broken">>, text_lower)
                  THEN "Medium" ELSE "Low",
          priority |-> priority_tool_run(text, category),
          reproduction_steps |->
             IF Contains("steps", text_lower) \/ Contains("reproduce", text_lower)
             THEN "Contains reproduction steps" ELSE "No steps provided"]

\* FeedbackAnalysisSystem.execute_bug_analyzer_manually
execute_bug_analyzer_manually(text, category) ==
    LET text_lower == lower(text) IN
    IF lower(category) # "bug"
    THEN [is_bug |-> FALSE,
          technical_details |-> "N/A - not a bug report",
          severity |-> "N/A",
          priority |-> "N/A"]
    ELSE [is_bug |-> TRUE,
          technical_details |-> technical_tool_run(text),
          severity |->
             IF AnyIn(<<"crash", "data loss", "cannot", "critical", "urgent">>, text_lower)
             THEN "High"
             ELSE IF AnyIn(<<"error", "issue", "problem", "broken">>, text_lower)
                  THEN "Medium" ELSE "Low",
          priority |-> priority_tool_run(text, category),
          reproduction_steps |->
             IF Contains("steps", text_lower) \/ Contains("reproduce", text_lower)
             THEN "Contains reproduction steps" ELSE "No steps provided"]

\* FeedbackAnalysisSystem.execute_feature_extractor_manually
execute_feature_extractor_manually(text, category) ==
    LET text_lower == lower(text)
        impact ==
            IF AnyIn(<<"all users", "everyone", "essential", "critical", "necessary">>,
                     text_lower)
            THEN "High"
            ELSE IF AnyIn(<<"many users", "important", "useful", "would help">>, text_lower)
                 THEN "Medium" ELSE "Low"
        complexity ==
            IF AnyIn(<<"simple", "easy", "basic", "just add">>, text_lower) THEN "Low"
            ELSE IF AnyIn(<<"complex", "difficult", "integration", "system">>, text_lower)
                 THEN "High" ELSE "Medium"
    IN  IF lower(category) # "feature request"
        THEN [is_feature |-> FALSE,
              impact |-> "N/A",
              complexity |-> "N/A",
              priority |-> "N/A"]
        ELSE [is_feature |-> TRUE,
              impact |-> impact,
              complexity |-> complexity,
              priority |-> priority_tool_run(text, category),
              user_benefit |-> IF impact = "High" THEN "High user value"
                               ELSE impact \o " user value"]

\* not d.get(field) for the string fields of a ticket
Falsy(d, field) == field \notin DOMAIN d \/ d[field] = "" \/ d[field] = NONE

required_fields == <<"title", "description", "category", "priority">>

RECURSIVE MissingFields(_, _)
MissingFields(ticket_data, fields) ==
    IF Len(fields) = 0 THEN <<>>
    ELSE (IF Falsy(ticket_data, fields[1]) THEN <<"Missing " \o fields[1]>> ELSE <<>>)
            \o MissingFields(ticket_data, Tail(fields))

\* a confidence_score of None (scores are fractions, None has no denominator)
NoneScore == <<0, 0>>

\* (variant: the status is decided by the configured minimum_quality_score)
ReviewerConfiguredCutoff(ticket_data) ==
    LET missing == MissingFields(ticket_data, required_fields)
        too_short == Len(Get(ticket_data, "description", "")) < 10
        confidence == Get(ticket_data, "confidence_score", Whole(0))
        low_confidence == confidence[1] < 50 * confidence[2]
        quality_score == 100 - 20 * Len(missing)
                             - (IF too_short THEN 10 ELSE 0)
                             - (IF low_confidence THEN 15 ELSE 0)
    IN  IF "ticket_id" \notin DOMAIN ticket_data THEN [raised |-> "KeyError"]
        ELSE IF Get(ticket_data, "description", "") = NONE
                  \/ Get(ticket_data, "confidence_score", Whole(0)) = NoneScore
        THEN [raised |-> "TypeError"]
        ELSE [quality_score |-> quality_score,
              issues |-> missing
                         \o (IF too_short THEN <<"Description too short">> ELSE <<>>)
                         \o (IF low_confidence THEN <<"Low confidence score">> ELSE <<>>),
              status |-> IF quality_score >= config.quality_thresholds.minimum_quality_score
                         THEN "approved" ELSE "needs_review"]

\* (variant: only a description that is present can be too short)
ReviewerShortOnlyIfPresent(ticket_data) ==
    LET missing == MissingFields(ticket_data, required_fields)
        too_short == "description" \in DOMAIN ticket_data /\ Len(ticket_data.description) < 10
        confidence == Get(ticket_data, "confidence_score", Whole(0))
        low_confidence == confidence[1] < 50 * confidence[2]
        quality_score == 100 - 20 * Len(missing)
                             - (IF too_short THEN 10 ELSE 0)
                             - (IF low_confidence THEN 15 ELSE 0)
    IN  IF "ticket_id" \notin DOMAIN ticket_data THEN [raised |-> "KeyError"]
        ELSE IF Get(ticket_data, "description", "") = NONE
                  \/ Get(ticket_data, "confidence_score", Whole(0)) = NoneScore
        THEN [raised |-> "TypeError"]
        ELSE [quality_score |-> quality_score,
              issues |-> missing
                         \o (IF too_short THEN <<"Description too short">> ELSE <<>>)
                         \o (IF low_confidence THEN <<"Low confidence score">> ELSE <<>>),
              status |-> IF quality_score >= 70
                         THEN "approved" ELSE "needs_review"]

\* FeedbackAnalysisSystem.execute_quality_reviewer_manually: line 434 raises
\* KeyError without a ticket_id; len(None) and None < 50 raise TypeError
execute_quality_reviewer_manually(ticket_data) ==
    LET missing == MissingFields(ticket_data, required_fields)
        too_short == Len(Get(ticket_data, "description", "")) < 10
        confidence == Get(ticket_data, "confidence_score", Whole(0))
        low_confidence == confidence[1] < 50 * confidence[2]
        quality_score == 100 - 20 * Len(missing)
                             - (IF too_short THEN 10 ELSE 0)
                             - (IF low_confidence THEN 15 ELSE 0)
    IN  IF "ticket_id" \notin DOMAIN ticket_data THEN [raised |-> "KeyError"]
        ELSE IF Get(ticket_data, "description", "") = NONE
                  \/ Get(ticket_data, "confidence_score", Whole(0)) = NoneScore
        THEN [raised |-> "TypeError"]
        ELSE [quality_score |-> quality_score,
              issues |-> missing
                         \o (IF too_short THEN <<"Description too short">> ELSE <<>>)
                         \o (IF low_confidence THEN <<"Low confidence score">> ELSE <<>>),
              status |-> IF quality_score >= 70
                         THEN "approved" ELSE "needs_review"]

\* (variant: the title is numbered with the position of the item in the batch)
GenerateTitleNumbered(category, text) ==
    IF category = "Bug" THEN "Fix: Application bug report #" \o ToString(idx)
    ELSE "Feedback #" \o ToString(idx)

\* FeedbackAnalysisSystem._generate_title
generate_title(category, text) ==
    LET t == lower(text) IN
    IF category = "Bug"
    THEN IF Contains("crash", t) THEN "Fix: Application crash issue"
         ELSE IF Contains("login", t) THEN "Fix: Login authentication problem"
         ELSE IF Contains("sync", t) THEN "Fix: Data synchronization issue"
         ELSE "Fix: Application bug report"
    ELSE IF category = "Feature Request"
    THEN IF Contains("dark mode", t) THEN "Feature: Add dark mode support"
         ELSE IF Contains("calendar", t) THEN "Feature: Calendar integration"
         ELSE IF Contains("export", t) THEN "Feature: Export functionality"
         ELSE "Feature: User-requested enhancement"
    ELSE IF category = "Praise" THEN "Positive feedback received"
    ELSE IF category = "Complaint" THEN "User complaint - investigate"
    ELSE "Spam content - review for removal"

\* d.update(e)
Update(d, e) ==
    [k \in DOMAIN d \cup DOMAIN e |-> IF k \in DOMAIN e THEN e[k] ELSE d[k]]

\* {k: v for k, v in d.items() if k not in ks}
Without(d, ks) == [k \in DOMAIN d \ ks |-> d[k]]

\* (variant: a text of exactly 500 characters is cut as well)
TicketDataCutFrom500(f, now) ==
    LET base ==
            [ticket_id |-> "TICKET-" \o f.source_id,
             source_id |-> f.source_id,
             source_type |-> f.source_type,
             category |-> f.category,
             priority |-> f.priority,
             title |-> f.title,
             description |-> IF Len(f.text) >= 500
                             THEN Prefix(f.text, 500) \o "..." ELSE f.text,
             technical_details |-> f.technical_details,
             confidence_score |-> f.confidence,
             created_date |-> now,
             status |-> "Open",
             additional_data |-> json_dumps(f.additional_data)]
        with_bug ==
            IF f.bug_analysis.is_bug
            THEN Update(base, [bug_severity |-> f.bug_analysis.severity,
                               reproduction_steps |-> f.bug_analysis.reproduction_steps,
                               bug_priority |-> f.bug_analysis.priority])
            ELSE base
    IN  IF f.feature_analysis.is_feature
        THEN Update(with_bug, [feature_impact |-> f.feature_analysis.impact,
                               feature_complexity |-> f.feature_analysis.complexity,
                               user_benefit |-> f.feature_analysis.user_benefit])
        ELSE with_bug

\* (variant: the bug analysis is merged into every ticket)
TicketDataAlwaysBug(f, now) ==
    LET base ==
            [ticket_id |-> "TICKET-" \o f.source_id,
             source_id |-> f.source_id,
             source_type |-> f.source_type,
             category |-> f.category,
             priority |-> f.priority,
             title |-> f.title,
             description |-> IF Len(f.text) > 500
                             THEN Prefix(f.text, 500) \o "..." ELSE f.text,
             technical_details |-> f.technical_details,
             confidence_score |-> f.confidence,
             created_date |-> now,
             status |-> "Open",
             additional_data |-> json_dumps(f.additional_data)]
        with_bug ==
            Update(base, [bug_severity |-> f.bug_analysis.severity,
                          reproduction_steps |->
                              Get(f.bug_analysis, "reproduction_steps", ""),
                          bug_priority |-> f.bug_analysis.priority])
    IN  IF f.feature_analysis.is_feature
        THEN Update(with_bug, [feature_impact |-> f.feature_analysis.impact,
                               feature_complexity |-> f.feature_analysis.complexity,
                               user_benefit |-> f.feature_analysis.user_benefit])
        ELSE with_bug

\* _process_single_feedback_with_agents, lines 1020-1050: the ticket dict
\* before the quality review; f holds the locals of the run
TicketData(f, now) ==
    LET base ==
            [ticket_id |-> "TICKET-" \o f.source_id,
             source_id |-> f.source_id,
             source_type |-> f.source_type,
             category |-> f.category,
             priority |-> f.priority,
             title |-> f.title,
             description |-> IF Len(f.text) > 500
                             THEN Prefix(f.text, 500) \o "..." ELSE f.text,
             technical_details |-> f.technical_details,
             confidence_score |-> f.confidence,
             created_date |-> now,
             status |-> "Open",
             additional_data |-> json_dumps(f.additional_data)]
        with_bug ==
            IF f.bug_analysis.is_bug
            THEN Update(base, [bug_severity |-> f.bug_analysis.severity,
                               reproduction_steps |-> f.bug_analysis.reproduction_steps,
                               bug_priority |-> f.bug_analysis.priority])
            ELSE base
    IN  IF f.feature_analysis.is_feature
        THEN Update(with_bug, [feature_impact |-> f.feature_analysis.impact,
                               feature_complexity |-> f.feature_analysis.complexity,
                               user_benefit |-> f.feature_analysis.user_benefit])
        ELSE with_bug

--------------------------------------------------------------------------
(* multi_agent_system.py: process_feedback_hybrid, one step per stage.     *)
(* pc is the position in the call: "idle" before it, "item" at the head of *)
(* the for loop, a stage name inside _process_single_feedback_with_agents, *)
(* "save" and "summary" after the loop, "returned" or "raised" at its end. *)
(* time.time() differences inside one stage are below one tick of the      *)
(* clock, so every processing time is 0.                                   *)

ReviewsFile == "app_store_reviews.csv"
EmailsFile == "support_emails.csv"

\* CSVReaderTool._run followed by json.loads: pandas reads an empty cell as
\* NaN and to_json writes NaN as null
read_csv_records(rows) ==
    [i \in DOMAIN rows |->
        [k \in DOMAIN rows[i] |-> IF rows[i][k] = "" THEN NONE ELSE rows[i][k]]]

\* item['source_file'] = file, for every record
WithSourceFile(records, file) ==
    [i \in DOMAIN records |-> Update(records[i], [source_file |-> file])]

\* f"{v}" of a string or None
Fmt(v) == IF v = NONE THEN "None" ELSE v

\* the exception that ended the call
Raised(exception) == Called("process_feedback_hybrid", exception, FALSE)

\* process_feedback_hybrid, lines 864-892: both files read into all_data
ReadInputs(reviews, emails) ==
    /\ pc = "idle"
    /\ all_data' = WithSourceFile(read_csv_records(reviews), ReviewsFile)
                      \o WithSourceFile(read_csv_records(emails), EmailsFile)
    /\ idx' = 0
    /\ results' = <<>>
    /\ result_cfg' = <<>>
    /\ pc' = "item"
    /\ UNCHANGED <<frame, last_result, clock, logger, log_file, outputs>>

\* lines 900-911: whether the record is processed, and the arguments
\* _process_single_feedback_with_agents gets for record number i (from 0)
Processable(item) ==
    \/ "review_text" \in DOMAIN item
    \/ "body" \in DOMAIN item /\ "subject" \in DOMAIN item

ItemArgs(item, i) ==
    IF "review_text" \in DOMAIN item
    THEN [source_id |-> Get(item, "review_id", "REV_" \o ToString(i)),
          source_type |-> "app_store_review",
          text |-> item.review_text,
          additional_data |-> Without(item, {"review_text"})]
    ELSE [source_id |-> Get(item, "email_id", "EMAIL_" \o ToString(i)),
          source_type |-> "support_email",
          text |-> Fmt(item.subject) \o " " \o Fmt(item.body),
          additional_data |-> Without(item, {"body", "subject"})]

\* lines 894-915: the loop head picks the next record, skips it when it has
\* neither review_text nor body and subject, and leaves the loop at the end
NextItem ==
    /\ pc = "item"
    /\ IF idx < Len(all_data)
       THEN IF Processable(all_data[idx + 1])
            THEN /\ frame' = Update(ItemArgs(all_data[idx + 1], idx),
                                    [index |-> idx, total |-> Len(all_data)])
                 /\ pc' = "classification"
                 /\ UNCHANGED idx
            ELSE /\ idx' = idx + 1
                 /\ UNCHANGED <<frame, pc>>
       ELSE /\ pc' = "save"
            /\ UNCHANGED <<idx, frame>>
    /\ UNCHANGED <<all_data, results, result_cfg, last_result, clock, logger,
                   log_file, outputs>>

\* Step 1, lines 943-953.  text[:50] in ClassificationTool._run raises
\* TypeError when text is None; nothing catches it up to the caller of
\* process_feedback_hybrid
Classification ==
    /\ pc = "classification"
    /\ IF frame.text = NONE
       THEN /\ pc' = "raised"
            /\ last_result' = Raised("TypeError")
            /\ frame' = <<>>
            /\ UNCHANGED <<clock, logger, log_file>>
       ELSE LET classification_result == classification_tool_run(frame.text, config) IN
            /\ frame' = Update(frame,
                          [category |-> classification_result.category,
                           confidence |-> classification_result.confidence,
                           thresholds_read |-> config.classification_thresholds])
            /\ log_classification_decision(system.processing_logger, system.session_id,
                   frame.source_id, frame.source_type, frame.text,
                   classification_result.category, classification_result.confidence, 0)
            /\ pc' = "bug_analysis"
            /\ UNCHANGED last_result
    /\ UNCHANGED <<all_data, idx, results, result_cfg, outputs>>

\* Step 2, lines 956-966
BugAnalysis ==
    /\ pc = "bug_analysis"
    /\ LET bug_analysis == execute_bug_analyzer_manually(frame.text, frame.category) IN
       /\ frame' = Update(frame, [bug_analysis |-> bug_analysis])
       /\ log_bug_analysis_decision(system.processing_logger, system.session_id,
              frame.source_id, frame.source_type, frame.text,
              bug_analysis.is_bug, Get(bug_analysis, "severity", ""),
              Get(bug_analysis, "priority", ""),
              Get(bug_analysis, "reproduction_steps", ""), 0)
    /\ pc' = "feature_analysis"
    /\ UNCHANGED <<all_data, idx, results, result_cfg, outputs, last_result>>

\* Step 3, lines 969-979
FeatureAnalysis ==
    /\ pc = "feature_analysis"
    /\ LET feature_analysis ==
               execute_feature_extractor_manually(frame.text, frame.category) IN
       /\ frame' = Update(frame, [feature_analysis |-> feature_analysis])
       /\ log_feature_analysis_decision(system.processing_logger, system.session_id,
              frame.source_id, frame.source_type, frame.text,
              feature_analysis.is_feature, Get(feature_analysis, "impact", ""),
              Get(feature_analysis, "complexity", ""),
              Get(feature_analysis, "user_benefit", ""), 0)
    /\ pc' = "priority"
    /\ UNCHANGED <<all_data, idx, results, result_cfg, outputs, last_result>>

\* Step 4, lines 985-992
PriorityAnalysis ==
    /\ pc = "priority"
    /\ LET priority == priority_tool_run(frame.text, frame.category) IN
       /\ frame' = Update(frame, [priority |-> priority])
       /\ log_priority_decision(system.processing_logger, system.session_id,
              frame.source_id, frame.source_type, frame.text, frame.category,
              priority, 0)
    /\ pc' = "technical_extraction"
    /\ UNCHANGED <<all_data, idx, results, result_cfg, outputs, last_result>>

\* Step 5, lines 998-1005
TechnicalExtraction ==
    /\ pc = "technical_extraction"
    /\ LET technical_details == technical_tool_run(frame.text) IN
       /\ frame' = Update(frame, [technical_details |-> technical_details])
       /\ log_technical_extraction_decision(system.processing_logger,
              system.session_id, frame.source_id, frame.source_type, frame.text,
              technical_details, 0)
    /\ pc' = "ticket_creation"
    /\ UNCHANGED <<all_data, idx, results, result_cfg, outputs, last_result>>

\* Step 6, lines 1011-1018
TicketCreation ==
    /\ pc = "ticket_creation"
    /\ LET title == generate_title(frame.category, frame.text) IN
       /\ frame' = Update(frame, [title |-> title])
       /\ log_ticket_creation_decision(system.processing_logger, system.session_id,
              frame.source_id, frame.source_type, title, frame.category,
              frame.priority, 0)
    /\ pc' = "ticket_data"
    /\ UNCHANGED <<all_data, idx, results, result_cfg, outputs, last_result>>

\* lines 1020-1050: the ticket dict, stamped with datetime.now()
AssembleTicket ==
    /\ pc = "ticket_data"
    /\ frame' = Update(frame, [ticket_data |-> TicketData(frame, clock)])
    /\ clock' = clock + 1
    /\ pc' = "quality_review"
    /\ UNCHANGED <<all_data, idx, results, result_cfg, outputs, last_result,
                   logger, log_file>>

\* Step 7, lines 1053-1077, and lines 914-915: the reviewed ticket is
\* returned and appended to results
QualityReview ==
    /\ pc = "quality_review"
    /\ LET quality_review == execute_quality_reviewer_manually(frame.ticket_data) IN
       /\ log_quality_review_decision(system.processing_logger, system.session_id,
              frame.source_id, frame.source_type, quality_review.quality_score,
              quality_review.status, quality_review.issues, 0)
       /\ results' = Append(results,
              Update(frame.ticket_data,
                     [quality_score |-> quality_review.quality_score,
                      quality_issues |-> json_dumps(quality_review.issues),
                      review_status |-> quality_review.status]))
    /\ result_cfg' = Append(result_cfg, frame.thresholds_read)
    /\ idx' = idx + 1
    /\ frame' = <<>>
    /\ pc' = "item"
    /\ UNCHANGED <<all_data, outputs, last_result>>

\* value_counts().to_dict() of one column of the tickets
ValueCounts(tickets, column) ==
    [v \in {tickets[i][column] : i \in DOMAIN tickets} |->
        Cardinality({i \in DOMAIN tickets : tickets[i][column] = v})]

RECURSIVE SumConfidenceScores(_)
SumConfidenceScores(tickets) ==
    IF Len(tickets) = 0 THEN Whole(0)
    ELSE FracAdd(tickets[1].confidence_score, SumConfidenceScores(Tail(tickets)))

ProcessedHeaders ==
    <<"source_id", "source_type", "category", "confidence", "processing_time", "status">>

\* _save_results, lines 1238-1250: the rows written over processing_log.csv
ProcessedRows(tickets, now) ==
    <<[header |-> ProcessedHeaders]>> \o
    [i \in DOMAIN tickets |->
        [source_id |-> tickets[i].source_id,
         source_type |-> tickets[i].source_type,
         category |-> tickets[i].category,
         confidence |-> tickets[i].confidence_score,
         processing_time |-> now + i - 1,
         status |-> "Processed"]]

\* _save_results: generated_tickets.csv is written, processing_log.csv is
\* overwritten (mode 'w'), then the metrics are computed; with no ticket the
\* frame has no 'category' column and tickets_df['category'] raises KeyError
SaveResults ==
    /\ pc = "save"
    /\ IF ~log_file.writable
       THEN /\ outputs' = [outputs EXCEPT !.written = TRUE, !.tickets = results]
            /\ clock' = clock + Len(results)
            /\ pc' = "raised"
            /\ last_result' = Raised("PermissionError")
            /\ UNCHANGED log_file
       ELSE /\ log_file' = [log_file EXCEPT
                               !.exists = TRUE,
                               !.rows = IF Len(results) = 0 THEN <<>>
                                        ELSE ProcessedRows(results, clock)]
            /\ IF Len(results) = 0
               THEN /\ outputs' = [outputs EXCEPT !.written = TRUE, !.tickets = results]
                    /\ pc' = "raised"
                    /\ last_result' = Raised("KeyError")
                    /\ UNCHANGED clock
               ELSE /\ outputs' =
                          [written |-> TRUE,
                           tickets |-> results,
                           metrics |->
                              <<[total_processed |-> Len(results),
                                 categories |-> json_dumps(ValueCounts(results, "category")),
                                 priorities |-> json_dumps(ValueCounts(results, "priority")),
                                 avg_confidence |->
                                    <<SumConfidenceScores(results)[1],
                                      SumConfidenceScores(results)[2] * Len(results)>>,
                                 processing_date |-> clock + Len(results)]>>]
                    /\ clock' = clock + Len(results) + 1
                    /\ pc' = "summary"
                    /\ UNCHANGED last_result
    /\ UNCHANGED <<all_data, idx, results, result_cfg, frame, logger>>

\* lines 928-934: the session summary, then return results
SessionSummary ==
    /\ pc = "summary"
    /\ log_session_summary(system.processing_logger, system.session_id,
                           Len(all_data), 0, Len(results))
    /\ pc' = "returned"
    /\ last_result' = ToolCalled("process_feedback_hybrid", "", results)
    /\ UNCHANGED <<all_data, idx, results, result_cfg, frame, outputs>>

--------------------------------------------------------------------------
(* One batch run by a FeedbackAnalysisSystem *)

MaxReviews == 3

\* rows of the app-store reviews file (columns review_id, review_text)
ReviewRows ==
    {[review_id |-> "R1", review_text |-> "The app keeps CRASHING on login"],
     [review_id |-> "R2", review_text |-> ""],
     [review_id |-> "R3", review_text |-> "error and slow"]}

\* rows of the support emails file (columns email_id, subject, body)
EmailRows ==
    {[email_id |-> "E1", subject |-> "Feature request",
      body |-> "Please add dark mode, would love it"],
     [email_id |-> "E2", subject |-> "", body |-> ""],
     [email_id |-> "E3", subject |-> "Great app",
      body |-> "I love it, works perfectly"]}

\* a file of another layout given as the emails file
OtherRows == <<[source_id |-> "R1", category |-> "Bug"]>>

SeqsUpTo(S, n) == UNION {[1..k -> S] : k \in 0..n}

ReviewFiles == SeqsUpTo(ReviewRows, MaxReviews)
\* the emails file is absent, holds one email, or is the file of another layout
EmailFiles == {<<>>} \cup {<<row>> : row \in EmailRows} \cup {OtherRows}

\* FeedbackAnalysisSystem(): the configuration manager and the processing
\* logger are obtained, the session id is a fresh uuid4
InitPipeline ==
    /\ InitCalls
    /\ text_in = ""
    /\ config = ConstructedAt(1).config
    /\ files = ConstructedAt(1).files
    /\ clock = ConstructedAt(1).clock
    /\ logger = [global |-> 1, objs |-> <<<<>>>>]
    /\ log_file = initialize_log_file([exists |-> FALSE, writable |-> TRUE, rows |-> <<>>])
    /\ \E s \in SessionIds : system = [processing_logger |-> 1, session_id |-> s]
    /\ outputs = [written |-> FALSE, tickets |-> <<>>, metrics |-> <<>>]
    /\ all_data = <<>>
    /\ idx = 0
    /\ results = <<>>
    /\ result_cfg = <<>>
    /\ pc = "idle"
    /\ frame = <<>>
    /\ upd = <<>>
    /\ rd = [pc |-> "idle"]

ProcessFeedbackHybrid ==
    \E reviews \in ReviewFiles, emails \in EmailFiles : ReadInputs(reviews, emails)

\* between two items the operator raises minimum_confidence in the UI
OperatorRaisesMinimum ==
    /\ pc = "item"
    /\ config.classification_thresholds.minimum_confidence # 60
    /\ update_section("classification_thresholds",
                      <<Kw("minimum_confidence", Num(60))>>, TRUE)
    /\ UNCHANGED <<logger, log_file, outputs, all_data, idx, results, result_cfg,
                   pc, frame>>

\* what a step of the batch leaves alone
BatchFrame == UNCHANGED <<config, config_file, files, system, text_in, upd, rd>>

NextPipeline ==
    \/ OperatorRaisesMinimum /\ UNCHANGED <<config_file, system, text_in, upd, rd>>
    \/ ProcessFeedbackHybrid /\ BatchFrame
    \/ NextItem /\ BatchFrame
    \/ Classification /\ BatchFrame
    \/ BugAnalysis /\ BatchFrame
    \/ FeatureAnalysis /\ BatchFrame
    \/ PriorityAnalysis /\ BatchFrame
    \/ TechnicalExtraction /\ BatchFrame
    \/ TicketCreation /\ BatchFrame
    \/ AssembleTicket /\ BatchFrame
    \/ QualityReview /\ BatchFrame
    \/ SaveResults /\ BatchFrame
    \/ SessionSummary /\ BatchFrame

SpecPipeline == InitPipeline /\ [][NextPipeline]_vars

--------------------------------------------------------------------------
(* Batches of long feedback: texts on both sides of the 500 characters      *)
(* that a ticket description keeps.                                         *)

MaxLongItems == 1

RECURSIVE Times(_, _)
\* Python's  s * n
Times(s, n) == IF n = 0 THEN "" ELSE s \o Times(s, n - 1)

\* review texts of 10, 500, 501 and 520 characters
LongReviewRows ==
    {[review_id |-> "R1", review_text |-> "it crashed"],
     [review_id |-> "R4", review_text |-> Times("it crashed again!!!!", 25)],
     [review_id |-> "R5", review_text |-> Times("it crashed again!!!!", 25) \o "!"],
     [review_id |-> "R6", review_text |-> Times("Please add dark mode. ", 23) \o "Thank you all."]}

\* an email whose subject, space and body make 501 characters
LongEmailRows ==
    {[email_id |-> "E4", subject |-> "Bug", body |-> Times("it crashed again", 31) \o "!"]}

LongReviewFiles == SeqsUpTo(LongReviewRows, MaxLongItems)
LongEmailFiles == {<<>>} \cup {<<row>> : row \in LongEmailRows}

ProcessLongFeedback ==
    \E reviews \in LongReviewFiles, emails \in LongEmailFiles : ReadInputs(reviews, emails)

NextLong ==
    \/ ProcessLongFeedback /\ BatchFrame
    \/ NextItem /\ BatchFrame
    \/ Classification /\ BatchFrame
    \/ BugAnalysis /\ BatchFrame
    \/ FeatureAnalysis /\ BatchFrame
    \/ PriorityAnalysis /\ BatchFrame
    \/ TechnicalExtraction /\ BatchFrame
    \/ TicketCreation /\ BatchFrame
    \/ AssembleTicket /\ BatchFrame
    \/ QualityReview /\ BatchFrame
    \/ SaveResults /\ BatchFrame
    \/ SessionSummary /\ BatchFrame

SpecLong == InitPipeline /\ [][NextLong]_vars

--------------------------------------------------------------------------
(* Batches processed after the operator has set the classification          *)
(* thresholds, to values inside and outside [0,1].                          *)

MaxTunedItems == 1

TunedReviewRows ==
    {[review_id |-> "R1", review_text |-> "The app keeps CRASHING on login"],
     [review_id |-> "R2", review_text |-> "Please add dark mode, would love it"],
     [review_id |-> "R3", review_text |-> "great bug, need money"],
     [review_id |-> "R4", review_text |-> "click here www.deal.com"],
     [review_id |-> "R5", review_text |-> "terrible, slow and expensive but great"],
     [review_id |-> "R6", review_text |-> "hello there"],
     [review_id |-> "R7", review_text |-> "slow great"]}

TunedReviewFiles == SeqsUpTo(TunedReviewRows, MaxTunedItems)

\* update_classification_thresholds(**kwargs) as the settings page calls it;
\* the method accepts every float
TunedUpdates ==
    {<<Kw("bug_threshold", Num(150)), Kw("minimum_confidence", Num(150))>>,
     <<Kw("bug_threshold", Num(0)), Kw("minimum_confidence", Num(-50))>>,
     <<Kw("feature_threshold", Num(100)), Kw("praise_threshold", Num(100)),
       Kw("complaint_threshold", Num(100)), Kw("spam_threshold", Num(100)),
       Kw("minimum_confidence", Num(100))>>,
     <<Kw("spam_threshold", Num(20)), Kw("minimum_confidence", Num(90))>>}

\* before the batch the operator sets the thresholds
OperatorTunes ==
    /\ pc = "idle"
    /\ last_result.op = "init"
    /\ \E kwargs \in TunedUpdates : update_section("classification_thresholds", kwargs, TRUE)
    /\ UNCHANGED <<logger, log_file, outputs, all_data, idx, results, result_cfg,
                   pc, frame>>

ProcessTunedFeedback ==
    \E reviews \in TunedReviewFiles : ReadInputs(reviews, <<>>)

NextTuned ==
    \/ OperatorTunes /\ UNCHANGED <<config_file, system, text_in, upd, rd>>
    \/ ProcessTunedFeedback /\ BatchFrame
    \/ NextItem /\ BatchFrame
    \/ Classification /\ BatchFrame
    \/ BugAnalysis /\ BatchFrame
    \/ FeatureAnalysis /\ BatchFrame
    \/ PriorityAnalysis /\ BatchFrame
    \/ TechnicalExtraction /\ BatchFrame
    \/ TicketCreation /\ BatchFrame
    \/ AssembleTicket /\ BatchFrame
    \/ QualityReview /\ BatchFrame
    \/ SaveResults /\ BatchFrame
    \/ SessionSummary /\ BatchFrame

SpecTuned == InitPipeline /\ [][NextTuned]_vars

--------------------------------------------------------------------------
(* One FeedbackAnalysisSystem asked to process several batches, as the UI   *)
(* and test_processing_log.py do.                                           *)

MaxBatches == 2

RerunReviewFiles ==
    {<<[review_id |-> "R1", review_text |-> "The app keeps CRASHING on login"]>>,
     <<[review_id |-> "R6", review_text |-> "hello there"]>>}

ProcessRerunFeedback ==
    \E reviews \in RerunReviewFiles : ReadInputs(reviews, <<>>)

\* process_feedback_hybrid has returned and the caller calls it again; every
\* batch here logs seven entries
CallAgain ==
    /\ pc = "returned"
    /\ Len(logger.objs[system.processing_logger]) < 7 * MaxBatches
    /\ pc' = "idle"
    /\ UNCHANGED <<all_data, idx, results, result_cfg, frame, last_result, clock,
                   logger, log_file, outputs>>

NextRerun ==
    \/ ProcessRerunFeedback /\ BatchFrame
    \/ CallAgain /\ BatchFrame
    \/ NextItem /\ BatchFrame
    \/ Classification /\ BatchFrame
    \/ BugAnalysis /\ BatchFrame
    \/ FeatureAnalysis /\ BatchFrame
    \/ PriorityAnalysis /\ BatchFrame
    \/ TechnicalExtraction /\ BatchFrame
    \/ TicketCreation /\ BatchFrame
    \/ AssembleTicket /\ BatchFrame
    \/ QualityReview /\ BatchFrame
    \/ SaveResults /\ BatchFrame
    \/ SessionSummary /\ BatchFrame

SpecRerun == InitPipeline /\ [][NextRerun]_vars

--------------------------------------------------------------------------
(* Properties of the batch and of the per-item pipeline *)

\* the audit log of the system's processing logger
SystemLog == logger.objs[system.processing_logger]

\* the action_type of the seven stages, in pipeline order
Stages ==
    <<"classification", "bug_analysis", "feature_analysis", "priority_assignment",
      "technical_extraction", "ticket_creation", "quality_review">>

\* the batch call is over
BatchEnded == pc \in {"returned", "raised"}

\* the records of the batch that enter the per-item pipeline
Entered == SelectSeq(all_data, Processable)

\* the k-th of them, as the arguments of its pipeline run
RunArgs(k) == ItemArgs(Entered[k], 0)

\* the pipeline of this record fails: its text is None, which the classifier
\* stage cannot slice
PipelineFails(item) == "review_text" \in DOMAIN item /\ item.review_text = NONE

\* the record came from a row whose raw text was empty
EmptyRawText(item) ==
    \/ "review_text" \in DOMAIN item /\ item.review_text = NONE
    \/ /\ "body" \in DOMAIN item /\ "subject" \in DOMAIN item
       /\ item.body = NONE /\ item.subject = NONE

\* the seven entries of the k-th completed run are the seven stages, in
\* order, each logged once for that item
SevenEntries(k) ==
    /\ Len(SystemLog) >= 7 * k
    /\ \A j \in 1..7 :
          /\ SystemLog[7 * (k - 1) + j].action_type = Stages[j]
          /\ SystemLog[7 * (k - 1) + j].source_id = results[k].source_id

\* C1: every run of the per-item pipeline leaves exactly one audit entry per
\* stage, and a run whose stage fails leaves one entry for the failing stage,
\* recorded with success_status false.
C1_OneEntryPerStage ==
    /\ \A k \in DOMAIN results : SevenEntries(k)
    /\ pc = "item" => Len(SystemLog) = 7 * Len(results)
    /\ last_result = Raised("TypeError") =>
          /\ Len(SystemLog) = 7 * Len(results) + 1
          /\ SystemLog[Len(SystemLog)].action_type = "classification"
          /\ SystemLog[Len(SystemLog)].source_id = ItemArgs(all_data[idx + 1], idx).source_id
          /\ ~SystemLog[Len(SystemLog)].success_status

\* C2: when the pipeline of one item of a batch fails, the call still
\* returns, the failure is in the audit log as a failed stage, and the
\* tickets are those of all the other items.
C2_BatchSurvivesItemFailure ==
    (BatchEnded /\ \E i \in DOMAIN all_data : PipelineFails(all_data[i])) =>
        LET survivors == SelectSeq(Entered, LAMBDA item : ~PipelineFails(item)) IN
        /\ pc = "returned"
        /\ \E i \in DOMAIN SystemLog : ~SystemLog[i].success_status
        /\ Len(results) = Len(survivors)
        /\ \A k \in DOMAIN results :
              results[k].source_id = ItemArgs(survivors[k], 0).source_id

\* C8: a batch holding an item with empty raw text does not raise; that item
\* gets its seven audit entries and a ticket, which under the default
\* configuration has category Uncertain and priority Low.
C8_EmptyTextIsProcessed ==
    (BatchEnded /\ \E i \in DOMAIN all_data : EmptyRawText(all_data[i])) =>
        /\ pc = "returned"
        /\ Len(results) = Len(Entered)
        /\ \A k \in DOMAIN results :
              EmptyRawText(Entered[k]) =>
                 /\ SevenEntries(k)
                 /\ result_cfg[k] = DefaultClassificationThresholds =>
                       /\ results[k].category = "Uncertain"
                       /\ results[k].priority = "Low"

\* C9: two runs of the per-item pipeline on the same source_id, source_type,
\* text and metadata under the same configuration give tickets equal in every
\* field but created_date.
C9_SameItemSameTicket ==
    \A j, k \in DOMAIN results :
        (RunArgs(j) = RunArgs(k) /\ result_cfg[j] = result_cfg[k]) =>
            Without(results[j], {"created_date"}) = Without(results[k], {"created_date"})

\* the same review was processed first and third, with another item and its
\* seven audit entries in between, under an unchanged configuration
C9_Witness ==
    /\ Len(results) = 3
    /\ RunArgs(1) = RunArgs(3)
    /\ RunArgs(1) # RunArgs(2)
    /\ result_cfg[1] = result_cfg[3]
    /\ results[1].category = "Bug"
    /\ results[1].created_date < results[3].created_date
    /\ Without(results[1], {"created_date"}) = Without(results[3], {"created_date"})

\* the same review processed twice with minimum_confidence raised in between:
\* the tickets differ
C9_WitnessConfigMatters ==
    /\ Len(results) >= 2
    /\ RunArgs(1) = RunArgs(2)
    /\ result_cfg[1] # result_cfg[2]
    /\ results[1].category = "Bug"
    /\ results[2].category = "Uncertain"

--------------------------------------------------------------------------
(* update_classification_thresholds in one thread while another thread     *)
(* classifies.  The configuration manager is one object per process and    *)
(* neither method takes a lock, so the threads interleave between the       *)
(* attribute writes of the for loop and between the attribute reads of      *)
(* ClassificationTool._run.                                                 *)
(* upd: the position of the writer, and (ghost) versions, the threshold     *)
(* sections that were in effect before or after a whole update call.        *)
(* rd: the position of the reader, the values it has read and its result.   *)

MaxUpdates == 1

ConcurrentUpdates ==
    {<<Kw("bug_threshold", Num(40)), Kw("minimum_confidence", Num(60))>>,
     <<Kw("minimum_confidence", Num(30)), Kw("spam_threshold", Str("abc"))>>}

ConcurrentTexts ==
    {"error and slow", "hello there", "The app keeps CRASHING on login",
     "click here www.deal.com bug"}

InitThreads ==
    /\ InitCalls
    /\ InitLogger
    /\ text_in = ""
    /\ config = ConstructedAt(1).config
    /\ files = ConstructedAt(1).files
    /\ clock = ConstructedAt(1).clock
    /\ system = NONE
    /\ outputs = [written |-> FALSE, tickets |-> <<>>, metrics |-> <<>>]
    /\ all_data = <<>>
    /\ idx = 0
    /\ results = <<>>
    /\ result_cfg = <<>>
    /\ pc = "idle"
    /\ frame = <<>>
    /\ upd = [pc |-> "idle", calls |-> 0,
              versions |-> {ConstructedAt(1).config.classification_thresholds}]
    /\ rd = [pc |-> "idle"]

\* update_classification_thresholds(**kwargs) is entered
BeginUpdate ==
    /\ upd.pc = "idle"
    /\ upd.calls < MaxUpdates
    /\ \E kwargs \in ConcurrentUpdates :
          upd' = [pc |-> "applying", calls |-> upd.calls + 1, kwargs |-> kwargs,
                  i |-> 1, versions |-> upd.versions]
    /\ UNCHANGED <<config, files, clock, last_result, rd>>

\* one round of the for loop, lines 176-179: hasattr, float(value), setattr;
\* a ValueError ends the call in the except branch with earlier fields set
ApplyNextField ==
    /\ upd.pc = "applying"
    /\ upd.i <= Len(upd.kwargs)
    /\ LET k == upd.kwargs[upd.i].key
           raw == upd.kwargs[upd.i].val
           kind == FieldKind("classification_thresholds", k)
       IN  IF kind = "skip"
           THEN /\ upd' = [upd EXCEPT !.i = @ + 1]
                /\ UNCHANGED <<config, last_result>>
           ELSE IF CoerceRaises(kind, raw)
           THEN /\ upd' = [pc |-> "idle", calls |-> upd.calls,
                           versions |-> upd.versions
                                           \cup {config.classification_thresholds}]
                /\ last_result' = Called("update_classification_thresholds",
                                         upd.kwargs, FALSE)
                /\ UNCHANGED config
           ELSE /\ config' = [config EXCEPT
                                 !.classification_thresholds[k] = Coerce(kind, raw)]
                /\ upd' = [upd EXCEPT !.i = @ + 1]
                /\ UNCHANGED last_result
    /\ UNCHANGED <<files, clock, rd>>

\* line 181: save_configuration after the loop
SaveUpdate ==
    /\ upd.pc = "applying"
    /\ upd.i > Len(upd.kwargs)
    /\ \E wrote \in BOOLEAN :
          /\ config' = Stamped(config, clock)
          /\ clock' = clock + 1
          /\ files' = Written(files, config_file, config', wrote)
          /\ last_result' = Called("update_classification_thresholds", upd.kwargs, wrote)
    /\ upd' = [pc |-> "idle", calls |-> upd.calls,
               versions |-> upd.versions \cup {config.classification_thresholds}]
    /\ UNCHANGED rd

\* ClassificationTool._run, lines 97-139: scores, category, raw_confidence
StartClassification ==
    /\ rd.pc \in {"idle", "done"}
    /\ \E text \in ConcurrentTexts : rd' = [pc |-> "scored", text |-> text]
    /\ UNCHANGED <<config, files, clock, last_result, upd>>

\* lines 142-146: the category threshold is read; when raw_confidence is not
\* below it the gate is passed and the call returns
ReadThreshold ==
    /\ rd.pc = "scored"
    /\ LET scores == Scores(rd.text)
           category == PyMax(scores)
           threshold == get_classification_threshold(config, category)
       IN  IF ScoreOf(scores, category) * 100 < threshold * Max2(1, ScoreSum(scores))
           THEN /\ rd' = [pc |-> "gate", text |-> rd.text, threshold |-> threshold]
                /\ UNCHANGED last_result
           ELSE /\ rd' = [pc |-> "done", text |-> rd.text, threshold |-> threshold,
                          read_minimum |-> FALSE,
                          out |-> ClassifyWith(rd.text, threshold, threshold)]
                /\ last_result' = ToolCalled("classification_tool_run", rd.text, rd'.out)
    /\ UNCHANGED <<config, files, clock, upd>>

\* lines 147-160: minimum_confidence is read and the call returns
ReadMinimum ==
    /\ rd.pc = "gate"
    /\ LET minimum == config.classification_thresholds.minimum_confidence IN
       /\ rd' = [pc |-> "done", text |-> rd.text, threshold |-> rd.threshold,
                 read_minimum |-> TRUE, minimum |-> minimum,
                 out |-> ClassifyWith(rd.text, rd.threshold, minimum)]
       /\ last_result' = ToolCalled("classification_tool_run", rd.text, rd'.out)
    /\ UNCHANGED <<config, files, clock, upd>>

ThreadsFrame ==
    UNCHANGED <<config_file, logger, log_file, system, outputs, text_in, all_data,
                idx, results, result_cfg, pc, frame>>

NextThreads ==
    \/ BeginUpdate /\ ThreadsFrame
    \/ ApplyNextField /\ ThreadsFrame
    \/ SaveUpdate /\ ThreadsFrame
    \/ StartClassification /\ ThreadsFrame
    \/ ReadThreshold /\ ThreadsFrame
    \/ ReadMinimum /\ ThreadsFrame

SpecThreads == InitThreads /\ [][NextThreads]_vars

--------------------------------------------------------------------------
(* Properties of concurrent updates *)

\* C5: once the update call has returned, a finished classification has read
\* its category threshold and its minimum_confidence from one whole
\* configuration, the one in effect before the call or the one in effect
\* after it, and its result is the result under that configuration.
C5_ReaderSeesOneVersion ==
    (rd.pc = "done" /\ upd.pc = "idle") =>
        \E v \in upd.versions :
            LET whole == [config EXCEPT !.classification_thresholds = v] IN
            /\ rd.threshold =
                  get_classification_threshold(whole, PyMax(Scores(rd.text)))
            /\ rd.read_minimum => rd.minimum = v.minimum_confidence
            /\ rd.out = classification_tool_run(rd.text, whole)

--------------------------------------------------------------------------
(* Startup: ConfigurationManager() on a store that an earlier run, an       *)
(* operator or the file system left in any condition.                       *)

MaxLoadClock == 6

\* a document with a field the section's dataclass does not have
UnknownFieldDoc ==
    [classification_thresholds |-> [bug_threshold |-> 80, bug_treshold |-> 90],
     version |-> "1.0.0"]

StoreStates ==
    {Missing, Malformed, Unreadable, Json(PartialDoc), Json(EditedDoc),
     Json(UnknownFieldDoc)}

\* ghost: what load_configuration found at config_file
StoreCondition(f) ==
    IF f.kind # "json" THEN f.kind
    ELSE IF LoadRaises(f.doc) THEN "rejected" ELSE "loaded"

\* the store is replaced, removed or made unreadable outside the program
StoreChanged ==
    /\ \E f \in StoreStates : files' = [files EXCEPT ![config_file] = f]
    /\ last_result' = Called("store_changed", "", TRUE)
    /\ UNCHANGED <<config, clock>>

\* __init__ / load_configuration; ghost saved: the save_configuration made
\* for the defaults succeeded
LoadConfiguration ==
    \E wrote \in BOOLEAN :
        LET l == load_configuration(files, config_file, clock, wrote) IN
        /\ config' = l.config
        /\ files' = l.files
        /\ clock' = l.clock
        /\ last_result' = [op |-> "load_configuration",
                           arg |-> StoreCondition(files[config_file]),
                           ok |-> TRUE, saved |-> wrote]

LoadFrame ==
    /\ UNCHANGED config_file
    /\ PipelineIdle
    /\ clock' <= MaxLoadClock

NextLoad ==
    \/ StoreChanged /\ LoadFrame
    \/ LoadConfiguration /\ LoadFrame
    \/ UpdateQualityThresholds /\ LoadFrame
    \/ UpdateClassificationThresholds /\ LoadFrame

SpecLoad == InitConfig /\ [][NextLoad]_vars

--------------------------------------------------------------------------
(* validate_configuration on configurations of every shape: thresholds     *)
(* below, at, inside and above the ends of [0,1], quality thresholds in     *)
(* and out of order, weights summing to 1 and not.                          *)

ThresholdValues == {-10, 0, 50, 100, 150}
ManualReviewValues == {30, 40, 60, 90, 95}
AutoApproveValues == {60, 90}
SeverityWeights == {30, 40, 50, 90}

InitValidate ==
    /\ InitOther
    /\ files = ConstructedAt(1).files
    /\ clock = ConstructedAt(1).clock
    /\ \E bug, spam, minimum \in ThresholdValues, manual \in ManualReviewValues,
          auto \in AutoApproveValues, severity \in SeverityWeights :
          config = [ConstructedAt(1).config EXCEPT
                       !.classification_thresholds.bug_threshold = bug,
                       !.classification_thresholds.spam_threshold = spam,
                       !.classification_thresholds.minimum_confidence = minimum,
                       !.quality_thresholds.manual_review_threshold = manual,
                       !.quality_thresholds.auto_approve_threshold = auto,
                       !.priority_weights.bug_severity_weight = severity]

NextValidate == ValidateConfiguration /\ ConfigFrame

SpecValidate == InitValidate /\ [][NextValidate]_vars

--------------------------------------------------------------------------
(* One call of a tool or manual agent, on any input, after the operator     *)
(* has changed the quality thresholds any number of times.                  *)

MaxAgentsClock == 5

Categories == {"Bug", "Feature Request", "Praise", "Complaint", "Spam", "Uncertain"}

PriorityTexts ==
    {"urgent", "This is CRITICAL for us", "data loss after update",
     "cannot login since monday", "it crashed twice", "lost all my notes",
     "we use it for business", "unimportant detail", "crash on start",
     "error 500", "found a bug", "sync is broken", "export not working",
     "an issue with fonts", "please add dark mode", "too expensive",
     "great app", "click here www.deal.com", "hello there", "",
     "urgent crash", "Critical bug: data loss"}

\* no tool or agent has been called yet in this behaviour
NoToolCalled ==
    last_result.op \in {"init", "update_quality_thresholds", "reset_to_defaults",
                         "import_configuration"}

\* update_quality_thresholds(minimum_quality_score=50, manual_review_threshold=45)
LowerQualityBar ==
    \E wrote \in BOOLEAN :
        update_section("quality_thresholds",
                       <<Kw("minimum_quality_score", Num(50)),
                         Kw("manual_review_threshold", Num(45))>>, wrote)

\* PriorityTool._run(text, category)
PriorityToolRun ==
    /\ NoToolCalled
    /\ \E text \in PriorityTexts, category \in Categories :
          last_result' = ToolCalled("priority_tool_run",
                                    [text |-> text, category |-> category],
                                    priority_tool_run(text, category))
    /\ UNCHANGED <<config, files, clock>>

\* tickets handed to the reviewer: each required field filled, empty or absent,
\* descriptions on both sides of 10 characters, confidences on both sides of 50
TitleValues == {"Fix: Application bug report", "", "absent"}
DescriptionValues == {"The app keeps crashing on login", "it crashed", "too short", "", "absent"}
CategoryValues == {"Bug", "", "absent"}
PriorityValues == {"High", "absent"}
ConfidenceValues == {Whole(100), Whole(50), <<99, 2>>, Whole(0)}

\* the dict with the given values, a value "absent" leaving its key out
Ticket(title, description, category, priority, confidence) ==
    LET all == [ticket_id |-> "TICKET-R1", title |-> title, description |-> description,
                category |-> category, priority |-> priority,
                confidence_score |-> confidence]
    IN  Without(all, {k \in {"title", "description", "category", "priority"} :
                          all[k] = "absent"})

Scored ==
    {Ticket(t, d, c, p, s) : t \in TitleValues, d \in DescriptionValues,
                             c \in CategoryValues, p \in PriorityValues,
                             s \in ConfidenceValues}

ReviewerTickets ==
    Scored \cup {Without(t, {"confidence_score"}) : t \in Scored}
        \cup {Ticket("Feedback", NONE, "Praise", "Low", Whole(80)),
              Ticket("Feedback", "I love it, works perfectly", "Praise", "Low", NoneScore),
              [title |-> "Feedback"]}

\* FeedbackAnalysisSystem.execute_quality_reviewer_manually(ticket_data)
ExecuteQualityReviewerManually ==
    /\ NoToolCalled
    /\ \E ticket_data \in ReviewerTickets :
          last_result' = ToolCalled("execute_quality_reviewer_manually", ticket_data,
                                    execute_quality_reviewer_manually(ticket_data))
    /\ UNCHANGED <<config, files, clock>>

AgentsFrame ==
    /\ UNCHANGED config_file
    /\ PipelineIdle
    /\ clock' <= MaxAgentsClock

NextAgents ==
    \/ PriorityToolRun /\ AgentsFrame
    \/ NoToolCalled /\ UpdateQualityThresholds /\ AgentsFrame
    \/ NoToolCalled /\ LowerQualityBar /\ AgentsFrame
    \/ NoToolCalled /\ ResetToDefaults /\ AgentsFrame
    \/ NoToolCalled /\ ImportConfiguration /\ AgentsFrame
    \/ ExecuteQualityReviewerManually /\ AgentsFrame

SpecAgents == InitConfig /\ [][NextAgents]_vars

--------------------------------------------------------------------------
(* Imports alone: from a fresh or an edited install, of a partial          *)
(* document, of a file that is not JSON and of a file that does not exist. *)

MaxImportClock == 6

ImportFrame ==
    /\ UNCHANGED config_file
    /\ PipelineIdle
    /\ clock' <= MaxImportClock

NextImport ==
    \/ ImportConfiguration /\ ImportFrame
    \/ UpdateQualityThresholds /\ ImportFrame

SpecImport == InitExchange /\ [][NextImport]_vars

--------------------------------------------------------------------------
(* Properties of import, load, update and validate *)

\* C11: an import_configuration call on an existing file that reports
\* success has written <config_file>.backup with the configuration that was
\* in effect before the call, and has left config_file the original path.
C11_BackupBeforeOverwrite ==
    [][(/\ last_result'.op = "import_configuration"
        /\ last_result'.ok
        /\ files[last_result'.arg].kind # "missing")
       => /\ files'[BackupOf(config_file)] = Json(asdict(config))
          /\ config_file' = config_file]_vars

\* the configuration is complete: every section has every field
InEffect(cfg) ==
    /\ DOMAIN cfg.classification_thresholds = ClassificationFields
    /\ DOMAIN cfg.priority_weights = PriorityFields
    /\ DOMAIN cfg.quality_thresholds = QualityFields
    /\ DOMAIN cfg.agent_settings = AgentFields
    /\ DOMAIN cfg.processing_rules = RuleFields

\* the configuration holds the default value of every field
IsDefaults(cfg) ==
    /\ cfg.classification_thresholds = DefaultClassificationThresholds
    /\ cfg.priority_weights = PriorityWeightsPostInit(DefaultPriorityWeightsRaw)
    /\ cfg.quality_thresholds = DefaultQualityThresholds
    /\ cfg.agent_settings = DefaultAgentSettings
    /\ cfg.processing_rules = DefaultProcessingRules
    /\ cfg.version = "1.0.0"

IsUpdateOf(section, result) == result.op = "update_" \o section

\* the names the call passed
Named(kwargs) == {kwargs[i].key : i \in DOMAIN kwargs}

\* frame of an update_<section> step: other sections, version and
\* created_by keep their values, the section keeps its fields, and a field
\* of the section that the call did not name keeps its value
UpdateFrame(section) ==
    /\ \A other \in SectionNames \ {section} : config'[other] = config[other]
    /\ config'.version = config.version
    /\ config'.created_by = config.created_by
    /\ DOMAIN config'[section] = DOMAIN config[section]
    /\ \A f \in DOMAIN config[section] \ Named(last_result'.arg) :
          config'[section][f] = config[section][f]

\* C13: an update_* call changes nothing but fields of its section that it
\* names, always saves the configuration under a new last_updated, and after
\* a call that returned True the store holds the in-memory configuration.
C13_UpdateFrameAndPersist ==
    [][\A section \in SectionNames :
          IsUpdateOf(section, last_result') =>
             /\ UpdateFrame(section)
             /\ config'.last_updated > config.last_updated
             /\ last_result'.ok => files'[config_file] = Json(asdict(config'))]_vars

\* C14: validate_configuration reports valid exactly when it lists no issue,
\* which is exactly when every classification threshold, minimum_confidence
\* included, lies in [0,1] and reject < manual_review < auto_approve; it
\* lists an issue for each threshold out of range and for each pair out of
\* order; weights summing outside [0.9,1.1] give a warning and have no
\* influence on valid.
C14_Validate ==
    last_result.op = "validate_configuration" =>
        LET r == last_result.out
            ct == config.classification_thresholds
            qt == config.quality_thresholds
            pw == config.priority_weights
            total == pw.bug_severity_weight + pw.user_impact_weight
                     + pw.technical_complexity_weight + pw.business_priority_weight
            inRange == \A f \in ClassificationFields : ct[f] >= 0 /\ ct[f] <= 100
            ascending == /\ qt.reject_threshold < qt.manual_review_threshold
                         /\ qt.manual_review_threshold < qt.auto_approve_threshold
        IN  /\ r.valid <=> (r.issues = {})
            /\ r.valid <=> (inRange /\ ascending)
            /\ \A f \in ClassificationFields :
                  (ct[f] < 0 \/ ct[f] > 100) => f \in r.issues
            /\ ~(qt.reject_threshold < qt.manual_review_threshold)
                  => "reject_order" \in r.issues
            /\ ~(qt.manual_review_threshold < qt.auto_approve_threshold)
                  => "manual_review_order" \in r.issues
            /\ (total < 90 \/ total > 110) => r.warnings # {}
            /\ (qt.reject_threshold = 40 /\ qt.manual_review_threshold = 60
                /\ qt.auto_approve_threshold = 90 /\ inRange) => r.valid
            /\ (qt.manual_review_threshold = 30 /\ qt.reject_threshold = 40)
                  => ~r.valid /\ "reject_order" \in r.issues

\* thresholds in range (at both ends of it) and in order, the weights summing
\* to 1.5: valid, with a warning
C14_Witness ==
    /\ last_result.op = "validate_configuration"
    /\ config.classification_thresholds.bug_threshold = 100
    /\ config.classification_thresholds.minimum_confidence = 0
    /\ config.quality_thresholds.manual_review_threshold = 60
    /\ config.priority_weights.bug_severity_weight = 90
    /\ last_result.out.valid
    /\ last_result.out.warnings # {}

\* manual_review at 30, below reject: invalid with the ordering issue
C14_WitnessOrder ==
    /\ last_result.op = "validate_configuration"
    /\ config.quality_thresholds.manual_review_threshold = 30
    /\ ~last_result.out.valid
    /\ "reject_order" \in last_result.out.issues

\* one of the values the call passes for a field of the section cannot be
\* coerced to the field's type
CoercionFails(section, kwargs) ==
    \E i \in DOMAIN kwargs :
       /\ FieldKind(section, kwargs[i].key) # "skip"
       /\ CoerceRaises(FieldKind(section, kwargs[i].key), kwargs[i].val)

\* C27: an update_* call that fails on a value it cannot coerce leaves the
\* configuration as it was, in memory (no field changed, last_updated not
\* advanced) and in the persisted store.
C27_FailedUpdateChangesNothing ==
    [][\A section \in SectionNames :
          (IsUpdateOf(section, last_result') /\ CoercionFails(section, last_result'.arg)) =>
             /\ ~last_result'.ok
             /\ config' = config
             /\ files' = files]_vars

\* the file is absent, or is not a document load_configuration can turn
\* into a configuration
NotImportable(f) == f.kind # "json" \/ LoadRaises(f.doc)

\* C28: an import_configuration call on a file that is missing, or that
\* cannot be parsed as a configuration, returns failure and changes neither
\* the configuration in effect, nor the persisted store, nor the import file.
C28_FailedImportNoEffect ==
    [][(/\ last_result'.op = "import_configuration"
        /\ NotImportable(files[last_result'.arg]))
       => /\ ~last_result'.ok
          /\ config' = config
          /\ files'[config_file] = files[config_file]
          /\ files'[last_result'.arg] = files[last_result'.arg]]_vars

--------------------------------------------------------------------------
(* Properties of the tools and manual agents *)

\* the text, lower-cased, contains one of the words
HasAny(words, text) == \E w \in words : Contains(w, lower(text))

\* C15: the priority is Critical when the text holds a critical keyword,
\* whatever the category; else High when the category is Bug and the text
\* holds a high keyword; else Medium for Feature Request and Complaint; else
\* Low.  High is given to Bug only and the result is one of the four levels.
C15_PriorityCascade ==
    last_result.op = "priority_tool_run" =>
        LET text == last_result.arg.text
            category == last_result.arg.category
            critical == HasAny({"urgent", "critical", "data loss", "cannot login",
                                "crashed", "lost all", "business", "important"}, text)
            high == HasAny({"crash", "error", "bug", "broken", "not working",
                            "issue"}, text)
            expected == IF critical THEN "Critical"
                        ELSE IF category = "Bug" /\ high THEN "High"
                        ELSE IF category \in {"Feature Request", "Complaint"}
                             THEN "Medium"
                        ELSE "Low"
        IN  /\ last_result.out = expected
            /\ last_result.out \in {"Critical", "High", "Medium", "Low"}
            /\ last_result.out = "High" => category = "Bug"
            /\ Contains("critical", lower(text)) => last_result.out = "Critical"

\* a bug report that holds a high keyword and the word critical, in capitals
C15_Witness ==
    /\ last_result.op = "priority_tool_run"
    /\ last_result.arg = [text |-> "Critical bug: data loss", category |-> "Bug"]
    /\ last_result.out = "Critical"

\* the reviewer was called and returned an assessment
ReviewerReturned ==
    /\ last_result.op = "execute_quality_reviewer_manually"
    /\ "raised" \notin DOMAIN last_result.out

\* C17: for every ticket given to execute_quality_reviewer_manually, with any
\* combination of missing or empty required fields, a short description and
\* a confidence below 50, the returned quality_score lies in [0,100].
C17_ScoreInRange ==
    ReviewerReturned =>
        last_result.out.quality_score >= 0 /\ last_result.out.quality_score <= 100

\* the deductions of a ticket, counted from its fields alone
ExpectedScore(t) ==
    100 - 20 * Cardinality({f \in {"title", "description", "category", "priority"} :
                               f \notin DOMAIN t \/ t[f] = ""})
        - (IF "description" \notin DOMAIN t \/ Len(t.description) < 10 THEN 10 ELSE 0)
        - (IF "confidence_score" \notin DOMAIN t
               \/ t.confidence_score[1] < 50 * t.confidence_score[2] THEN 15 ELSE 0)

\* C18: the reviewer's status is approved exactly when the score is >= 70 and
\* needs_review otherwise, and neither the score nor the status depends on
\* the configuration: whatever Config.QualityThresholds holds after updates,
\* a reset or an import, the same ticket gets the same score and status.
C18_FixedCutoff ==
    ReviewerReturned =>
        /\ last_result.out.quality_score = ExpectedScore(last_result.arg)
        /\ last_result.out.status =
              IF ExpectedScore(last_result.arg) >= 70 THEN "approved" ELSE "needs_review"

\* minimum_quality_score was lowered to 50 and a ticket scoring 60 is still
\* sent to review
C18_Witness ==
    /\ ReviewerReturned
    /\ config.quality_thresholds.minimum_quality_score = 50
    /\ last_result.out.quality_score = 60
    /\ last_result.out.status = "needs_review"

\* a partial configuration was imported and a ticket scoring 70 is approved
C18_WitnessImport ==
    /\ ReviewerReturned
    /\ config.version = "2.0.0"
    /\ config.quality_thresholds.reject_threshold = 10
    /\ last_result.out.quality_score = 70
    /\ last_result.out.status = "approved"

Range(s) == {s[i] : i \in DOMAIN s}

\* ticket t with each required field kept, emptied or removed as m says
Reduce(t, m) ==
    [k \in DOMAIN t \ {f \in DOMAIN m : m[f] = "remove"} |->
        IF k \in DOMAIN m /\ m[k] = "empty" THEN "" ELSE t[k]]

\* the tickets obtained from t by emptying or removing one or more of title,
\* description, category, priority
Reductions(t) ==
    {Reduce(t, m) : m \in [{"title", "description", "category", "priority"}
                              -> {"keep", "empty", "remove"}]} \ {t}

\* C19: for any ticket t and any ticket t' obtained from t by emptying or
\* removing one or more required fields, score(t') <= score(t) and the issues
\* of t are a subset of the issues of t'.
C19_ScoreMonotone ==
    ReviewerReturned =>
        \A t \in Reductions(last_result.arg) :
            LET r == execute_quality_reviewer_manually(t) IN
            /\ "raised" \notin DOMAIN r
            /\ r.quality_score <= last_result.out.quality_score
            /\ Range(last_result.out.issues) \subseteq Range(r.issues)

\* a ticket scoring 90 for its short description: its reductions go down to
\* 10 with five issues, and removing the description alone gives 70 and adds
\* an issue to the one it had
C19_Witness ==
    /\ ReviewerReturned
    /\ last_result.out.quality_score = 90
    /\ last_result.out.issues = <<"Description too short">>
    /\ \E t \in Reductions(last_result.arg) :
          /\ execute_quality_reviewer_manually(t).quality_score = 10
          /\ Len(execute_quality_reviewer_manually(t).issues) = 5
    /\ \E t \in Reductions(last_result.arg) :
          /\ execute_quality_reviewer_manually(t).quality_score = 70
          /\ execute_quality_reviewer_manually(t).issues =
                <<"Missing description", "Description too short">>

BugFields == {"bug_severity", "reproduction_steps", "bug_priority"}
FeatureFields == {"feature_impact", "feature_complexity", "user_benefit"}

\* the audit entry of the k-th completed run for the j-th stage
StageEntry(k, j) == SystemLog[7 * (k - 1) + j]

\* both analyzers have just run on the item in hand: each returns its N/A
\* record for every category other than its own
AnalyzersGated ==
    /\ frame.bug_analysis.is_bug = (frame.category = "Bug")
    /\ frame.feature_analysis.is_feature = (frame.category = "Feature Request")
    /\ \A c \in Categories \ {"Bug"} :
          execute_bug_analyzer_manually(frame.text, c) =
              [is_bug |-> FALSE, technical_details |-> "N/A - not a bug report",
               severity |-> "N/A", priority |-> "N/A"]
    /\ \A c \in Categories \ {"Feature Request"} :
          execute_feature_extractor_manually(frame.text, c) =
              [is_feature |-> FALSE, impact |-> "N/A",
               complexity |-> "N/A", priority |-> "N/A"]

\* C16: a ticket carries the three bug fields exactly when its category is
\* Bug and the three feature fields exactly when it is Feature Request,
\* never both sets; for every other category both analyzers returned their
\* N/A record and the ticket carries no field of either set.
C16_CategoryGating ==
    /\ pc = "priority" => AnalyzersGated
    /\ \A k \in DOMAIN results :
        LET t == results[k]
            bug == StageEntry(k, 2).output_data.json
            feature == StageEntry(k, 3).output_data.json
        IN  /\ IF t.category = "Bug"
               THEN BugFields \subseteq DOMAIN t /\ bug.is_bug
               ELSE BugFields \cap DOMAIN t = {} /\ ~bug.is_bug /\ bug.severity = "N/A"
            /\ IF t.category = "Feature Request"
               THEN FeatureFields \subseteq DOMAIN t /\ feature.is_feature
               ELSE /\ FeatureFields \cap DOMAIN t = {}
                    /\ ~feature.is_feature /\ feature.impact = "N/A"
            /\ ~(BugFields \subseteq DOMAIN t /\ FeatureFields \subseteq DOMAIN t)

\* one batch gave a Bug ticket, a Praise ticket and an Uncertain ticket
C16_Witness ==
    /\ \E k \in DOMAIN results :
          results[k].category = "Bug" /\ BugFields \subseteq DOMAIN results[k]
    /\ \E k \in DOMAIN results :
          results[k].category = "Praise" /\ BugFields \cap DOMAIN results[k] = {}
    /\ \E k \in DOMAIN results : results[k].category = "Uncertain"

\* a Feature Request ticket with the feature fields and without the bug fields
C16_WitnessFeature ==
    \E k \in DOMAIN results :
        /\ results[k].category = "Feature Request"
        /\ FeatureFields \subseteq DOMAIN results[k]
        /\ BugFields \cap DOMAIN results[k] = {}

\* description = text[:500] + "..." if len(text) > 500 else text
Shortened(text) == IF Len(text) > 500 THEN SubSeq(text, 1, 500) \o "..." ELSE text

\* C20: for every processed item the ticket has ticket_id = "TICKET-" +
\* source_id, status Open, and a description equal to the text when the text
\* has at most 500 characters and otherwise to its first 500 characters
\* followed by "..."; the ticket-creation audit entry of the item records the
\* same ticket_id.
C20_TicketIdentity ==
    \A k \in DOMAIN results :
        LET t == results[k] IN
        /\ t.source_id = RunArgs(k).source_id
        /\ t.ticket_id = "TICKET-" \o RunArgs(k).source_id
        /\ t.status = "Open"
        /\ t.description = Shortened(RunArgs(k).text)
        /\ StageEntry(k, 6).action_type = "ticket_creation"
        /\ StageEntry(k, 6).source_id = t.source_id
        /\ StageEntry(k, 6).output_data.json.ticket_id = t.ticket_id

\* one batch held a text of exactly 500 characters, kept whole, and one of
\* 501 characters, cut to 500 and marked
C20_Witness ==
    /\ \E k \in DOMAIN results :
          /\ Len(RunArgs(k).text) = 500
          /\ results[k].description = RunArgs(k).text
          /\ results[k].ticket_id = "TICKET-R4"
    /\ \E k \in DOMAIN results :
          /\ Len(RunArgs(k).text) = 501
          /\ Len(results[k].description) = 503
          /\ SubSeq(results[k].description, 501, 503) = "..."
          /\ results[k].ticket_id = "TICKET-E4"
          /\ StageEntry(k, 6).output_data.json.ticket_id = "TICKET-E4"

\* a confidence <<num, den>> in [0,100]
IsPercent(c) == c[2] > 0 /\ c[1] >= 0 /\ c[1] <= 100 * c[2]

\* C21: for every text and every configuration, valid or not, the
\* classification result has a category that is one of Bug, Feature Request,
\* Praise, Complaint, Spam, Uncertain and a confidence in [0,100]; the same
\* holds for the category and confidence_score of every ticket.
C21_CategoryAndConfidence ==
    /\ \A i \in DOMAIN SystemLog :
          SystemLog[i].action_type = "classification" =>
              /\ SystemLog[i].output_data.json.category \in Categories
              /\ IsPercent(SystemLog[i].output_data.json.confidence)
              /\ IsPercent(SystemLog[i].confidence_score)
    /\ pc \in {"bug_analysis", "ticket_data"} =>
          frame.category \in Categories /\ IsPercent(frame.confidence)
    /\ \A k \in DOMAIN results :
          /\ results[k].category \in Categories
          /\ IsPercent(results[k].confidence_score)

\* with bug_threshold and minimum_confidence at 1.5 a text whose keywords are
\* all bug keywords became an Uncertain ticket of confidence 50
C21_Witness ==
    /\ config.classification_thresholds.minimum_confidence = 150
    /\ \E k \in DOMAIN results :
          /\ results[k].category = "Uncertain"
          /\ FracEq(results[k].confidence_score, Whole(50))
          /\ StageEntry(k, 1).output_data.json.category = "Uncertain"

\* with minimum_confidence at -0.5 a text without keywords became a Bug
\* ticket of confidence 0
C21_WitnessNegative ==
    /\ config.classification_thresholds.minimum_confidence = -50
    /\ \E k \in DOMAIN results :
          /\ results[k].category = "Bug"
          /\ FracEq(results[k].confidence_score, Whole(0))

\* under the defaults a text with three complaint keywords of four became a
\* Complaint ticket of confidence 75
C21_WitnessShare ==
    /\ config.classification_thresholds.minimum_confidence = 50
    /\ \E k \in DOMAIN results :
          /\ results[k].category = "Complaint"
          /\ FracEq(results[k].confidence_score, Whole(75))

\* the positions of the session summary rows in processing_log.csv
SummaryRows ==
    {i \in DOMAIN log_file.rows :
        /\ "source_type" \in DOMAIN log_file.rows[i]
        /\ log_file.rows[i].source_type = "session_summary"}

\* the batch has ended with one summary row, the last row of the file,
\* reporting the tickets produced over the records read
OneSummary ==
    /\ Cardinality(SummaryRows) = 1
    /\ SummaryRows = {Len(log_file.rows)}
    /\ log_file.rows[Len(log_file.rows)].status =
          "Completed " \o ToString(Len(results)) \o "/" \o ToString(Len(all_data))
    /\ Len(results) <= Len(all_data)
    /\ Len(SystemLog) = 7 * Len(results)

\* C22: at the end of a batch exactly one session summary entry is emitted,
\* after all per-item audit entries of that batch, and it reports success
\* count = number of tickets produced and total count = number of input
\* records read, with success <= total.
C22_OneSummaryAtBatchEnd ==
    IF pc \in {"returned", "raised"} THEN OneSummary ELSE SummaryRows = {}

\* the rows of processing_log.csv that are audit entries
PersistedEntries ==
    SelectSeq(log_file.rows, LAMBDA r : "agent_name" \in DOMAIN r /\ "timestamp" \in DOMAIN r)

\* C24: each log_agent_decision call appends the entry in memory and writes
\* it to the persisted log before returning, so after every call the
\* persisted entries equal the in-memory entries except for entries whose
\* write failed.  (No write fails here, the log file stays writable.)
C24_PersistedAfterEveryCall ==
    [][SystemLog' # SystemLog => PersistedEntries' = SystemLog']_vars

--------------------------------------------------------------------------
(* Sessions logging into one logger, and their statistics *)

MaxStatsClock == 6

\* log_agent_decision called directly for an operation that failed
LogFailedDecision ==
    \E lg \in DOMAIN logger.objs, c \in ClassifierCallers :
        /\ log_agent_decision(lg,
               [session_id |-> c.session_id, source_id |-> c.source_id,
                source_type |-> c.source_type,
                agent_name |-> "Bug Analysis Agent",
                action_type |-> "bug_analysis",
                decision_point |-> "bug_detection",
                input_data |-> PyStr(c.text),
                output_data |-> PyDict([is_bug |-> FALSE]),
                success_status |-> FALSE,
                error_message |-> "analysis timed out"])
        /\ last_result' = Called("log_agent_decision", c.source_id, TRUE)

StatsFrame ==
    /\ UNCHANGED <<config, config_file, files, system, outputs, text_in, all_data,
                   idx, results, result_cfg, pc, frame, upd, rd>>
    /\ clock' <= MaxStatsClock

NextStats ==
    \/ GetProcessingLogger /\ StatsFrame
    \/ LogClassificationDecision /\ StatsFrame
    \/ LogPriorityDecision /\ StatsFrame
    \/ LogFailedDecision /\ StatsFrame
    \/ ChangeLogFileMode /\ StatsFrame
    \/ GetSessionStats /\ StatsFrame

SpecStats == InitLoggerSpec /\ [][NextStats]_vars

\* get_session_stats(s) was called on logger object last_result.lg
StatsCalled == last_result.op = "get_session_stats"

\* the entries of that logger with session_id s
EntriesOf(lg, s) == SelectSeq(logger.objs[lg], LAMBDA e : e.session_id = s)

RECURSIVE SumOver(_, _)
\* the sum of f over the finite set S
SumOver(S, f) ==
    IF S = {} THEN 0
    ELSE LET x == CHOOSE x \in S : TRUE IN f[x] + SumOver(S \ {x}, f)

\* C23: get_session_stats(s) aggregates exactly the audit entries whose
\* session_id is s: total_operations is their number, the per-agent counts
\* sum to it, successful_operations <= total_operations with success_rate =
\* successful_operations / total_operations, entries of other sessions never
\* change the result, and a session with no entries yields an empty result.
C23_SessionStats ==
    StatsCalled =>
        LET out == last_result.out
            mine == EntriesOf(last_result.lg, last_result.arg)
            agents == DOMAIN out.agent_statistics
        IN  IF Len(mine) = 0 THEN out = <<>>
            ELSE /\ out.session_id = last_result.arg
                 /\ out.total_operations = Len(mine)
                 /\ SumOver(agents, [a \in agents |-> out.agent_statistics[a].count])
                       = out.total_operations
                 /\ \A a \in agents :
                       out.agent_statistics[a].count =
                           Cardinality({i \in DOMAIN mine : mine[i].agent_name = a})
                 /\ out.successful_operations =
                       Cardinality({i \in DOMAIN mine : mine[i].success_status})
                 /\ out.successful_operations <= out.total_operations
                 /\ FracEq(out.success_rate,
                           <<out.successful_operations, out.total_operations>>)
                 /\ out = get_session_stats(mine, last_result.arg)

\* statistics of a session with two entries, from different agents and one
\* of them failed, in a logger that also holds an entry of the other session
C23_Witness ==
    /\ StatsCalled
    /\ Len(EntriesOf(last_result.lg, last_result.arg)) = 2
    /\ Len(logger.objs[last_result.lg]) = 3
    /\ Cardinality(DOMAIN last_result.out.agent_statistics) = 2
    /\ last_result.out.total_operations = 2
    /\ last_result.out.successful_operations = 1
    /\ FracEq(last_result.out.success_rate, <<1, 2>>)

\* statistics asked for a session without entries in a logger that has
\* entries of the other session: the empty result
C23_WitnessEmpty ==
    /\ StatsCalled
    /\ Len(logger.objs[last_result.lg]) > 0
    /\ Len(EntriesOf(last_result.lg, last_result.arg)) = 0
    /\ last_result.out = <<>>

--------------------------------------------------------------------------
(* The size of the input snapshot an audit entry stores.                   *)

\* len(json.dumps(d)) for a dict of string values holding no character that
\* JSON escapes: '{"k": "v", "k2": "v2"}'
JsonTextLen(d) ==
    IF DOMAIN d = {} THEN 2
    ELSE 2 + SumOver(DOMAIN d, [k \in DOMAIN d |-> Len(k) + Len(d[k]) + 6])
           + 2 * (Cardinality(DOMAIN d) - 1)

\* len(entry['input_data'])
InputLen(e) ==
    IF "json" \in DOMAIN e.input_data THEN JsonTextLen(e.input_data.json)
    ELSE Len(e.input_data.str)

\* C25: the input snapshot of every audit entry, whatever its stage and
\* however long the feedback text, is at most 200 characters long.
C25_InputSnapshotBounded ==
    \A i \in 1..Len(SystemLog) : InputLen(SystemLog[i]) <= 200

--------------------------------------------------------------------------
(* The order of the audit entries of a batch.                              *)

\* the entries the item in position k of the log has so far
ItemEntries(k) ==
    SubSeq(SystemLog, 7 * (k - 1) + 1,
           IF 7 * k <= Len(SystemLog) THEN 7 * k ELSE Len(SystemLog))

\* the items that have an entry
ItemsLogged == 1..((Len(SystemLog) + 6) \div 7)

\* the source_id of the k-th item the batch works on
SourceIdOf(k) == IF k <= Len(results) THEN results[k].source_id ELSE frame.source_id

\* the entries of one item follow the stage order, name the batch's session
\* and the item, and their category is the classifier's
InOrderWithCategory(k, entries) ==
    LET category == entries[1].output_data.json.category IN
    \A j \in 1..Len(entries) :
       /\ entries[j].action_type = Stages[j]
       /\ entries[j].session_id = system.session_id
       /\ entries[j].source_id = SourceIdOf(k)
       /\ j = 2 => entries[j].output_data.json.is_bug = (category = "Bug")
       /\ j = 3 => entries[j].output_data.json.is_feature = (category = "Feature Request")
       /\ j = 4 => entries[j].input_data.json.category = category
       /\ j = 6 => entries[j].input_data.json.category = category
       /\ (j = 7 /\ k <= Len(results)) => results[k].category = category

\* C26: the audit entries of a batch come item by item, each item's entries
\* in the order classification, bug analysis, feature analysis, priority,
\* technical extraction, ticket creation, quality review, every entry with
\* the batch's session_id and its item's source_id, and every stage after the
\* classifier works on the category the classifier decided.
C26_SequentialStages ==
    /\ Len(results) = Len(SystemLog) \div 7
    /\ \A k \in ItemsLogged : InOrderWithCategory(k, ItemEntries(k))

\* two items of different categories went through all seven stages
C26_Witness ==
    /\ Len(SystemLog) = 14
    /\ ItemEntries(1)[1].output_data.json.category = "Bug"
    /\ ItemEntries(2)[1].output_data.json.category \notin {"Bug", "Praise"}
    /\ ItemEntries(2)[7].source_id # ItemEntries(1)[7].source_id

--------------------------------------------------------------------------
(* The reproduction flag of the bug-analysis entry.                        *)

\* the text names reproduction steps
HasMarker(text) == Contains("steps", lower(text)) \/ Contains("reproduce", lower(text))

\* C29: in the bug-analysis entry of an item, has_reproduction_steps, like
\* reproduction_steps_available in its metadata, is true exactly when the
\* item was analysed as a Bug and its text holds a reproduction marker.
C29_ReproductionFlag ==
    pc = "feature_analysis" =>
        LET entry == SystemLog[Len(SystemLog)]
            expected == frame.category = "Bug" /\ HasMarker(frame.text)
        IN  /\ entry.action_type = "bug_analysis"
            /\ entry.output_data.json.has_reproduction_steps = expected
            /\ entry.metadata.json.reproduction_steps_available = expected

--------------------------------------------------------------------------
(* The title of a ticket and its category.                                 *)

\* the category a generated title speaks of
TitleCategory(title) ==
    IF Prefix(title, 5) = "Fix: " THEN "Bug"
    ELSE IF Prefix(title, 9) = "Feature: " THEN "Feature Request"
    ELSE IF title = "Positive feedback received" THEN "Praise"
    ELSE IF title = "User complaint - investigate" THEN "Complaint"
    ELSE IF title = "Spam content - review for removal" THEN "Spam"
    ELSE NONE

\* C30: the title of every ticket agrees with the ticket's category: a
\* "Fix: ..." title only on a Bug, a "Feature: ..." title only on a Feature
\* Request, the praise, complaint and spam titles only on Praise, Complaint
\* and Spam; a ticket demoted to Uncertain is not titled as spam.
C30_TitleAgreesWithCategory ==
    \A k \in DOMAIN results :
        TitleCategory(results[k].title) # NONE =>
            TitleCategory(results[k].title) = results[k].category

====
